---- MODULE Spec2Model ----
(***************************************************************************)
(* Model of the Spotify catalogue collector (src/API_spotify_tracks_V2.py):*)
(* the rate-limited Fetcher (_request_with_retry), the Batch Resolver      *)
(* (_chunked, fetch_artists_meta, fetch_tracks_popularity), the sharded    *)
(* Searcher (search_albums_by_year), the Walker (fetch_album_tracks) and   *)
(* the Orchestrator (collect_year_tracks, main); and of the paged search   *)
(* of the artist explorer (src/API_Spotify_V3.py, search_artists).         *)
(*                                                                         *)
(* Each component has its own specification over its own variables; the    *)
(* variables of the other components are left unchanged by it. PagingSpec  *)
(* runs one search or one walk; WalkLiveSpec runs a walk under fairness    *)
(* against a server whose next links need not end.                         *)
(***************************************************************************)
EXTENDS Integers, Sequences, FiniteSets, TLC

VARIABLES
    \* ---- Fetcher: one call of _request_with_retry
    max_retries,   \* the max_retries argument
    attempt,       \* the loop variable of `for attempt in range(max_retries)`
    flog,          \* one record per HTTP request issued by the call
    clock,         \* wall clock in seconds (advanced by time.sleep)
    fpc,           \* "loop" | "exhausted" | "returned" | "raised"
    \* ---- Batch Resolver: one call of fetch_artists_meta / fetch_tracks_popularity
    r_kind,        \* "artists" | "tracks"
    r_input,       \* the argument artist_ids / track_ids (a sequence)
    r_todo,        \* the batches _chunked has still to yield
    r_sent,        \* the `ids` parameter of every request issued so far
    r_meta,        \* the dict meta / pop built so far
    r_pc,          \* "loop" | "returned" | "raised"
    \* ---- Searcher: one call of search_albums_by_year
    s_year,        \* the year argument
    s_shards,      \* the shards argument
    s_cap,         \* max_pages_per_shard (0 models None)
    s_shard,       \* index of the shard being processed (1-based)
    s_next,        \* next_url of the current shard
    s_params,      \* TRUE while params is the first-page dict, FALSE once None
    s_pages,       \* the pages counter of the current shard
    s_index,       \* albums_index, as the sequence of its entries in insertion order
    s_seen,        \* history: the earliest matching occurrence of each identifier
    s_fetches,     \* Fetcher calls issued for each shard
    s_reqs,        \* history: url and params of every Fetcher call, with the link it got
    s_pc,          \* "loop" | "returned" | "raised"
    \* ---- Walker: one call of fetch_album_tracks
    w_chain,       \* the pages the endpoint serves for the parent
    w_next,        \* next_url: 0 when falsy, else the page it points to
    w_params,      \* TRUE while params is the first-page dict
    w_tracks,      \* the list tracks
    w_fetches,     \* Fetcher calls issued
    w_reqs,        \* history: link and params of every Fetcher call, with the link it got
    w_pc,          \* "loop" | "returned" | "raised"
    \* ---- Orchestrator: main, and collect_year_tracks for each year and market
    o_years,       \* args.years
    o_markets,     \* args.markets
    o_args,        \* [enrich_artists, enrich_tracks, max_pages, limit]: the CLI options
    o_env,         \* [client_id, client_secret]: what os.getenv returns for each
    o_tok,         \* tok: the access token (NoToken before get_access_token returns)
    o_log,         \* history: the requests of the run in the order they are issued
    o_yi,          \* index of the year being processed (1-based)
    o_mi,          \* index of the market being processed (1-based)
    o_albums,      \* albums_index of the current collect
    o_ai,          \* index of the album being walked (1-based)
    o_rows,        \* rows of the current collect
    o_artist_ids,  \* all_artist_ids of the current collect
    o_df,          \* df of the current collect
    o_meta,        \* the dict fetch_artists_meta returned to the current collect
    o_pop,         \* the dict fetch_tracks_popularity returned to the current collect
    o_dfs,         \* dfs: the frames of the markets done for the current year
    o_files,       \* the CSV files written so far, in order: [year, rows]
    o_error,       \* "none" | "credentials" | "http" (a request raised) | "lookup" | "killed"
    o_pc,          \* "start" | "token" | "search" | "walk" | "artists" | "tracks" |
                   \* "merge" | "write" | "done" | "raised" | "killed"
    \* ---- Artist explorer: one call of search_artists
    e_args,        \* [limit, pages, min_popularity, offset]: the arguments
    e_count,       \* iterations of `for _ in range(pages)` started so far
    e_current_offset, \* current_offset
    e_next_offset, \* next_offset: NoneValue or Some(n)
    e_artists,     \* the list artists
    e_reqs,        \* history: one record per sp_client.search call
    e_pc           \* "loop" | "returned" | "raised"

fvars == <<max_retries, attempt, flog, clock, fpc>>
rvars == <<r_kind, r_input, r_todo, r_sent, r_meta, r_pc>>
svars == <<s_year, s_cap, s_shards, s_shard, s_next, s_params, s_pages, s_index, s_seen,
           s_fetches, s_reqs, s_pc>>
wvars == <<w_chain, w_next, w_params, w_tracks, w_fetches, w_reqs, w_pc>>
ovars == <<o_years, o_markets, o_args, o_env, o_tok, o_log, o_yi, o_mi, o_albums, o_ai,
           o_rows, o_artist_ids, o_df, o_meta, o_pop, o_dfs, o_files, o_error, o_pc>>
evars == <<e_args, e_count, e_current_offset, e_next_offset, e_artists, e_reqs, e_pc>>
vars == <<fvars, rvars, svars, wvars, ovars, evars>>

-----------------------------------------------------------------------------
(* Bounds of the model                                                     *)

MaxRetries == 5
MaxWait == 2
MaxIds == 101
MaxShards == 2
MaxCap == 2
MaxPages == 3
MaxChain == 3
MaxArtistPages == 3

-----------------------------------------------------------------------------
(* Generic helpers                                                         *)

Range(s) == {s[i] : i \in 1..Len(s)}

Digits == <<"0", "1", "2", "3", "4", "5", "6", "7", "8", "9">>

RECURSIVE StrNat(_)
\* Python str(n) for n >= 0: the decimal digits of n, most significant first.
StrNat(n) ==
    IF n < 10 THEN <<Digits[n + 1]>>
    ELSE Append(StrNat(n \div 10), Digits[(n % 10) + 1])

\* Python str(n) for an int.
Str(n) == IF n < 0 THEN <<"-">> \o StrNat(0 - n) ELSE StrNat(n)

DigitValue(c) == CHOOSE d \in 0..9 : Digits[d + 1] = c

RECURSIVE ParseNat(_)
\* Python int(s) for a string of decimal digits.
ParseNat(s) ==
    IF Len(s) = 1 THEN DigitValue(s[1])
    ELSE 10 * ParseNat(SubSeq(s, 1, Len(s) - 1)) + DigitValue(s[Len(s)])

\* Python s.startswith(p).
StartsWith(s, p) == Len(p) <= Len(s) /\ SubSeq(s, 1, Len(p)) = p

-----------------------------------------------------------------------------
(* Fetcher: _request_with_retry                                            *)

DefaultMaxRetries == 5

\* Status codes the server answers with: success, a redirect left
\* unfollowed, a client error, rate limiting, and both ends of 5xx.
Statuses == {200, 304, 404, 429, 500, 599}

\* The Retry-After header of a response: absent, or a decimal number of
\* seconds as the Web API sends it.
NoHeader == [present |-> FALSE, value |-> <<>>]
RetryAfterHeaders ==
    {NoHeader} \cup {[present |-> TRUE, value |-> Str(n)] : n \in 0..MaxWait}

\* The responses a request may get: a 429 with any Retry-After header, a 599
\* that carries one too (the code reads it on 429 only), and the other
\* statuses without it.
Responses ==
    [status : {429}, retry_after : RetryAfterHeaders]
        \cup [status : Statuses \ {429}, retry_after : {NoHeader}]
        \cup {[status |-> 599, retry_after |-> [present |-> TRUE, value |-> Str(MaxWait)]]}

IsRateLimited(status) == status = 429

IsServerError(status) == 500 <= status /\ status < 600

\* requests.Response.raise_for_status raises for 4xx and 5xx only.
RaisesForStatus(status) == 400 <= status /\ status < 600

Retryable(status) == IsRateLimited(status) \/ IsServerError(status)

\* wait = int(r.headers.get("Retry-After", "1"))
RetryWaitIgnoringHeader(hdr) == ParseNat(<<"1">>)
RetryWait(hdr) == ParseNat(IF hdr.present THEN hdr.value ELSE <<"1">>)

\* time.sleep(1.0 + attempt)
BackoffFlat(k) == 1
Backoff(k) == 1 + k

\* The sleep that follows a retryable response received on attempt k.
SleepAfter(resp, k) ==
    IF IsRateLimited(resp.status) THEN RetryWait(resp.retry_after) ELSE Backoff(k)

\* Whether time.sleep is called after the response received on attempt k of
\* m: both retry branches sleep before `continue`, whatever the attempt.
SleepsUnlessLast(resp, k, m) == Retryable(resp.status) /\ k + 1 < m
Sleeps(resp, k, m) == Retryable(resp.status)

\* `for attempt in range(max_retries)`: whether the loop runs with attempt = k.
InRangeOffByOne(k, m) == k <= m
InRange(k, m) == k < m

\* One iteration of the for loop: the request, then the 429 branch, the 5xx
\* branch, or raise_for_status and return.
Attempt(resp) ==
    /\ fpc = "loop"
    /\ LET retry == Retryable(resp.status)
           sleeps == Sleeps(resp, attempt, max_retries)
           slept == IF sleeps THEN SleepAfter(resp, attempt) ELSE 0
       IN /\ flog' = Append(flog, [status |-> resp.status,
                                   retry_after |-> resp.retry_after,
                                   attempt |-> attempt,
                                   at |-> clock,
                                   slept |-> sleeps,
                                   sleep |-> slept])
          /\ clock' = clock + slept
          /\ IF retry
             THEN /\ attempt' = attempt + 1
                  /\ fpc' = IF InRange(attempt + 1, max_retries) THEN "loop" ELSE "exhausted"
             ELSE /\ attempt' = attempt
                  /\ fpc' = IF RaisesForStatus(resp.status) THEN "raised" ELSE "returned"
    /\ UNCHANGED max_retries
    /\ UNCHANGED <<rvars, svars, wvars, ovars, evars>>

\* After the loop: r.raise_for_status() on the last response, then return r
\* (with max_retries = 0 no response exists and the name r is unbound).
Exhausted ==
    /\ fpc = "exhausted"
    /\ fpc' = IF flog = << >> \/ RaisesForStatus(flog[Len(flog)].status)
              THEN "raised" ELSE "returned"
    /\ UNCHANGED <<max_retries, attempt, flog, clock>>
    /\ UNCHANGED <<rvars, svars, wvars, ovars, evars>>

FetchNext ==
    \/ \E resp \in Responses : Attempt(resp)
    \/ Exhausted

RECURSIVE RequestWithRetry(_, _, _)
\* The whole call as a function of the responses the server gives to its
\* successive requests: the number of requests issued and how the call ends
\* (resps is long enough: at least m responses, or it ends with a final one).
RequestWithRetry(resps, m, k) ==
    IF k >= m THEN [requests |-> k, outcome |-> "raised", status |-> resps[k].status]
    ELSE IF Retryable(resps[k + 1].status) THEN RequestWithRetry(resps, m, k + 1)
    ELSE [requests |-> k + 1,
          outcome |-> IF RaisesForStatus(resps[k + 1].status) THEN "raised" ELSE "returned",
          status |-> resps[k + 1].status]

\* Response sequences a Fetcher call made by another component may meet:
\* immediate success, success after a 429 and a 5xx, a client error, and
\* DefaultMaxRetries retryable responses in a row.
FetchScripts ==
    LET ok == [status |-> 200, retry_after |-> NoHeader]
        limited == [status |-> 429, retry_after |-> NoHeader]
        broken == [status |-> 500, retry_after |-> NoHeader]
        missing == [status |-> 404, retry_after |-> NoHeader]
    IN {<<ok>>, <<limited, broken, ok>>, <<missing>>,
        [i \in 1..DefaultMaxRetries |-> IF i % 2 = 1 THEN limited ELSE broken]}

\* How a Fetcher call with the default max_retries ends on a script.
FetchOutcome(script) == RequestWithRetry(script, DefaultMaxRetries, 0).outcome

\* The ways a Fetcher call made by another component can end.
FetchOutcomes == {FetchOutcome(script) : script \in FetchScripts}

-----------------------------------------------------------------------------
(* Batch Resolver: _chunked, fetch_artists_meta, fetch_tracks_popularity   *)

\* Identifiers are positive numbers; EmptyId is the falsy identifier (None
\* or ""), which `if x` filters out.
EmptyId == 0

\* The batch size both resolvers pass to _chunked.
BatchSize == 50

\* Optional values: None, or a value.
NoneValue == [some |-> FALSE, v |-> 0]
Some(x) == [some |-> TRUE, v |-> x]

\* The elements of a set of numbers in ascending order.
Ascending(S) ==
    [i \in 1..Cardinality(S) |->
        CHOOSE x \in S : Cardinality({y \in S : y < x}) = i - 1]

Reverse(s) == [i \in 1..Len(s) |-> s[Len(s) + 1 - i]]

\* {x for x in ids if x}
NonEmptyIds(ids) == {x \in Range(ids) : x # EmptyId}

\* list({x for x in ids if x}): the iteration order of a Python set is not
\* specified; both orders below are possible outcomes.
UniqueListsKeepingRepeats(ids) == {SelectSeq(ids, LAMBDA x : x # EmptyId)}
UniqueLists(ids) == {Ascending(NonEmptyIds(ids)), Reverse(Ascending(NonEmptyIds(ids)))}

RECURSIVE ChunksFrom(_, _, _)
\* What the generator yields from element i on, starting with an empty
\* buffer: the buffer is yielded when it holds n elements, and what is left
\* in it at the end of seq is yielded when it is not empty.
ChunksFrom(seq, n, i) ==
    IF i > Len(seq) THEN << >>
    ELSE IF i + n - 1 <= Len(seq)
         THEN <<SubSeq(seq, i, i + n - 1)>> \o ChunksFrom(seq, n, i + n)
         ELSE <<SubSeq(seq, i, Len(seq))>>

\* list(_chunked(seq, n))
ChunkedOversize(seq, n) == ChunksFrom(seq, n + 1, 1)
Chunked(seq, n) == ChunksFrom(seq, n, 1)

\* What the server knows about an entity.
Entity(id) ==
    [null |-> FALSE, id |-> id, followers |-> Some(100 + id),
     genres |-> <<"genre">>, name |-> id, popularity |-> Some(id % 101)]

NullEntity ==
    [null |-> TRUE, id |-> EmptyId, followers |-> NoneValue,
     genres |-> << >>, name |-> EmptyId, popularity |-> NoneValue]

\* The server of the scenarios knows the odd identifiers only.
KnownToServer(id) == id % 2 = 1

\* An identifier the server may answer with that was not asked for (a relinked
\* or canonical identifier).
ForeignId(batch) == 1000 + batch[1]

\* The ways a server answers a batch request: every entity; the known ones
\* and null for the others; null for all; no list; another identifier in
\* place of the first; an entity without identifier in place of the first.
ReplyModes == {"all", "known", "nulls", "empty", "foreign", "anonymous"}

ServerReply(mode, batch) ==
    CASE mode = "all" -> [i \in 1..Len(batch) |-> Entity(batch[i])]
      [] mode = "known" ->
            [i \in 1..Len(batch) |->
                IF KnownToServer(batch[i]) THEN Entity(batch[i]) ELSE NullEntity]
      [] mode = "nulls" -> [i \in 1..Len(batch) |-> NullEntity]
      [] mode = "empty" -> << >>
      [] mode = "foreign" ->
            [i \in 1..Len(batch) |->
                IF i = 1 THEN Entity(ForeignId(batch)) ELSE Entity(batch[i])]
      [] mode = "anonymous" ->
            [i \in 1..Len(batch) |->
                IF i = 1 THEN [Entity(batch[i]) EXCEPT !.id = EmptyId]
                ELSE Entity(batch[i])]

EmptyDict == [x \in {} |-> NoneValue]

\* The dict entry fetch_artists_meta stores for an artist object.
ArtistMeta(a) ==
    [followers |-> a.followers, genres |-> a.genres, name |-> a.name,
     popularity |-> a.popularity]

\* The position of the last entity among those at positions kept that
\* carries the identifier k: a later assignment to a key replaces an earlier one.
LastWith(entities, kept, k) ==
    CHOOSE i \in kept :
        /\ entities[i].id = k
        /\ \A j \in kept : entities[j].id = k => j <= i

\* for a in artists: if not a: continue; meta[a["id"]] = {...}
MergeArtists(meta, artists) ==
    LET kept == {i \in 1..Len(artists) : ~artists[i].null}
        keys == {artists[i].id : i \in kept}
    IN [k \in DOMAIN meta \cup keys |->
            IF k \in keys THEN ArtistMeta(artists[LastWith(artists, kept, k)])
            ELSE meta[k]]

\* for tr in tracks: if tr and tr.get("id") is not None: pop[tr["id"]] = tr.get("popularity")
MergeTracks(pop, tracks) ==
    LET kept == {i \in 1..Len(tracks) : ~tracks[i].null /\ tracks[i].id # EmptyId}
        keys == {tracks[i].id : i \in kept}
    IN [k \in DOMAIN pop \cup keys |->
            IF k \in keys THEN tracks[LastWith(tracks, kept, k)].popularity
            ELSE pop[k]]

\* The merge of one batch reply into the dict, by resolver.
MergeReply(kind, dict, reply) ==
    IF kind = "artists" THEN MergeArtists(dict, reply) ELSE MergeTracks(dict, reply)

\* The identifier collections a resolve call is given: n distinct
\* identifiers, alone, with an empty identifier, or with an empty identifier
\* and repeats.
Ids(n) == [i \in 1..n |-> i]

InputSizes == {0, 1, 3, BatchSize - 1, BatchSize, BatchSize + 1, 2 * BatchSize, MaxIds}

ResolverInputs ==
    {Ids(n) \o extra : n \in InputSizes, extra \in {<< >>, <<EmptyId>>, <<EmptyId, 1, 1>>}}

\* One iteration of `for batch in _chunked(unique, 50)` whose Fetcher call
\* returns: the request carrying the batch, then the merge of its reply.
ResolveBatch(mode) ==
    /\ r_pc = "loop"
    /\ r_todo # << >>
    /\ "returned" \in FetchOutcomes
    /\ r_sent' = Append(r_sent, Head(r_todo))
    /\ r_meta' = MergeReply(r_kind, r_meta, ServerReply(mode, Head(r_todo)))
    /\ r_todo' = Tail(r_todo)
    /\ UNCHANGED <<r_kind, r_input, r_pc>>
    /\ UNCHANGED <<fvars, svars, wvars, ovars, evars>>

\* One iteration whose Fetcher call raises: the exception ends the call.
ResolveFail ==
    /\ r_pc = "loop"
    /\ r_todo # << >>
    /\ "raised" \in FetchOutcomes
    /\ r_sent' = Append(r_sent, Head(r_todo))
    /\ r_pc' = "raised"
    /\ UNCHANGED <<r_kind, r_input, r_todo, r_meta>>
    /\ UNCHANGED <<fvars, svars, wvars, ovars, evars>>

\* The generator is exhausted: return meta.
ResolveReturn ==
    /\ r_pc = "loop"
    /\ r_todo = << >>
    /\ r_pc' = "returned"
    /\ UNCHANGED <<r_kind, r_input, r_todo, r_sent, r_meta>>
    /\ UNCHANGED <<fvars, svars, wvars, ovars, evars>>

ResolveNext ==
    \/ \E mode \in ReplyModes : ResolveBatch(mode)
    \/ ResolveFail
    \/ ResolveReturn

RECURSIVE ResolveAll(_, _, _, _)
\* A whole resolve call whose Fetcher calls all return, against a server
\* answering every batch in the given mode.
ResolveAll(kind, batches, mode, dict) ==
    IF batches = << >> THEN dict
    ELSE ResolveAll(kind, Tail(batches), mode,
                    MergeReply(kind, dict, ServerReply(mode, Head(batches))))

-----------------------------------------------------------------------------
(* Searcher: search_albums_by_year                                         *)

SearchUrl == "https://api.spotify.com/v1/search"

\* The falsy next link (None or "") and the cursor links the server hands out.
NoUrl == ""
CursorUrls == {"cursor-1", "cursor-2"}

\* build_shards over an alphabet cut down to two digits and three letters:
\* the digits come first, then the letters or the bigrams.
ShardDigits == <<"0", "1">>
ShardLetters == <<"a", "b", "c">>
ShardBigrams ==
    [i \in 1..(Len(ShardLetters) * Len(ShardLetters)) |->
        <<ShardLetters[((i - 1) \div Len(ShardLetters)) + 1],
          ShardLetters[((i - 1) % Len(ShardLetters)) + 1]>>]
BuildShards(mode) ==
    IF mode = "letters" THEN ShardDigits \o ShardLetters ELSE ShardDigits \o ShardBigrams

\* The alphabet the Searcher is given: a prefix of the 'letters' alphabet.
ShardAlphabet == BuildShards("letters")

\* Release dates the server reports: year, month and day precision of two
\* years, a date shorter than a year, and a missing one (None, read as "").
Date2023 == <<"2", "0", "2", "3">>
Date2023Day == <<"2", "0", "2", "3", "-", "0", "5", "-", "1", "7">>
Date2024Month == <<"2", "0", "2", "4", "-", "0", "1">>
DateShort == <<"2", "0", "2">>
DateMissing == << >>

Album(id, name, date) ==
    [id |-> id, name |-> name, album_type |-> "album", release_date |-> date,
     artists |-> <<id>>]

\* The item lists a search page may carry. Albums 1, 2, 3 recur with
\* different payloads and dates; one item has no identifier.
PageOne == <<Album(1, "first", Date2023), Album(2, "first", Date2023Day)>>
PageTwo == <<Album(1, "second", Date2023Day), Album(3, "first", Date2023)>>
PageThree ==
    <<Album(1, "third", Date2024Month), Album(EmptyId, "anonymous", Date2023),
      Album(3, "second", Date2023)>>
PageFour ==
    <<Album(2, "second", DateMissing), Album(3, "third", DateShort),
      Album(2, "third", Date2024Month)>>
SearchPages == {PageOne, PageTwo, PageThree, PageFour, << >>}

Years == {2023, 2024, 202}

\* rel.startswith(str(year))
MatchesYearAnyDate(rel, year) == rel # << >>
MatchesYear(rel, year) == StartsWith(rel, Str(year))

\* "album_id" in albums_index
InIndex(index, id) == \E i \in 1..Len(index) : index[i].album_id = id

\* The entry stored for an item.
IndexEntry(alb) ==
    [album_id |-> alb.id, album_name |-> alb.name, album_type |-> alb.album_type,
     release_date |-> alb.release_date, artists |-> alb.artists]

\* The body of `for alb in block.get("items", [])` for one item.
IndexItemOverwrite(index, alb, year) ==
    IF ~MatchesYear(alb.release_date, year) THEN index
    ELSE IF alb.id = EmptyId THEN index
    ELSE IF InIndex(index, alb.id)
         THEN [i \in 1..Len(index) |->
                 IF index[i].album_id = alb.id THEN IndexEntry(alb) ELSE index[i]]
    ELSE Append(index, IndexEntry(alb))
IndexItem(index, alb, year) ==
    IF ~MatchesYear(alb.release_date, year) THEN index
    ELSE IF alb.id = EmptyId THEN index
    ELSE IF InIndex(index, alb.id) THEN index
    ELSE Append(index, IndexEntry(alb))

RECURSIVE IndexPage(_, _, _, _)
\* The for loop over the items of one page, from item i on.
IndexPage(index, items, year, i) ==
    IF i > Len(items) THEN index
    ELSE IndexPage(IndexItem(index, items[i], year), items, year, i + 1)

\* `if max_pages_per_shard and pages >= max_pages_per_shard: break`
CapReachedLate(cap, pages) == cap # 0 /\ pages > cap
CapReached(cap, pages) == cap # 0 /\ pages >= cap

\* An occurrence comes before another in shard, page, position order.
Before(a, b) ==
    \/ a.shard < b.shard
    \/ a.shard = b.shard /\ a.page < b.page
    \/ a.shard = b.shard /\ a.page = b.page /\ a.pos < b.pos

\* The occurrences, on the page fetched as page number page of shard shard,
\* of items that carry an identifier and a release date of the year.
Occurrences(items, year, shard, page) ==
    {[shard |-> shard, page |-> page, pos |-> i, item |-> items[i]] :
        i \in {j \in 1..Len(items) :
                 items[j].id # EmptyId /\ MatchesYear(items[j].release_date, year)}}

\* History: for each identifier, its earliest occurrence among seen \cup occs.
Earliest(seen, occs) ==
    LET all == seen \cup occs
    IN {o \in all : \A q \in all : q.item.id = o.item.id => ~Before(q, o)}

\* params = None, once a page was fetched: the query parameters are dropped.
FollowParamsKept(params) == params
FollowParams(params) == FALSE

\* q = f"year:{year} artist:{shard}"
SearchQuery(year, shard) == <<"year:">> \o Str(year) \o <<" artist:", shard>>

\* The params argument of a request: the first-page dict of the shard (its
\* q, type and offset), or None.
NoParams == [present |-> FALSE, q |-> << >>, type |-> "", offset |-> 0]
SearchParams(year, shard) ==
    [present |-> TRUE, q |-> SearchQuery(year, shard), type |-> "album", offset |-> 0]

\* The next link a page fetched at url may carry: none, or a cursor other
\* than the one just followed.
NextLinks(url) == {NoUrl} \cup {IF url = "cursor-1" THEN "cursor-2" ELSE "cursor-1"}

\* The Fetcher call of the current iteration, and the next link its response
\* carries (NoUrl when it carries none or the call raises).
SearchRequest(next) ==
    [shard |-> s_shard,
     url |-> s_next,
     params |-> IF s_params THEN SearchParams(s_year, s_shards[s_shard]) ELSE NoParams,
     next |-> next]

\* The for loop moves to the next shard: next_url, params and pages are set anew.
NextShard ==
    /\ s_shard' = s_shard + 1
    /\ s_next' = SearchUrl
    /\ s_params' = TRUE
    /\ s_pages' = 0

\* One iteration of `while next_url` whose Fetcher call returns a page with
\* an albums block: index its items, follow its next link, count the page,
\* and leave the loop on a falsy link or on the cap.
SearchPage(items, next) ==
    /\ s_pc = "loop"
    /\ s_shard <= Len(s_shards)
    /\ s_next # NoUrl
    /\ "returned" \in FetchOutcomes
    /\ next # NoUrl => s_fetches[s_shard] + 1 < MaxPages
    /\ next \in NextLinks(s_next)
    /\ s_fetches' = [s_fetches EXCEPT ![s_shard] = @ + 1]
    /\ s_reqs' = Append(s_reqs, SearchRequest(next))
    /\ s_index' = IndexPage(s_index, items, s_year, 1)
    /\ s_seen' = Earliest(s_seen, Occurrences(items, s_year, s_shard, s_pages + 1))
    /\ IF next = NoUrl \/ CapReached(s_cap, s_pages + 1)
       THEN NextShard
       ELSE /\ s_next' = next
            /\ s_params' = FollowParams(s_params)
            /\ s_pages' = s_pages + 1
            /\ s_shard' = s_shard
    /\ UNCHANGED <<s_year, s_cap, s_shards, s_pc>>
    /\ UNCHANGED <<fvars, rvars, wvars, ovars, evars>>

\* An iteration whose response has no albums block: `if not block: break`.
SearchNoBlock ==
    /\ s_pc = "loop"
    /\ s_shard <= Len(s_shards)
    /\ s_next # NoUrl
    /\ "returned" \in FetchOutcomes
    /\ s_fetches' = [s_fetches EXCEPT ![s_shard] = @ + 1]
    /\ s_reqs' = Append(s_reqs, SearchRequest(NoUrl))
    /\ NextShard
    /\ UNCHANGED <<s_year, s_cap, s_shards, s_index, s_seen, s_pc>>
    /\ UNCHANGED <<fvars, rvars, wvars, ovars, evars>>

\* An iteration whose Fetcher call raises: the exception ends the call.
SearchFail ==
    /\ s_pc = "loop"
    /\ s_shard <= Len(s_shards)
    /\ s_next # NoUrl
    /\ "raised" \in FetchOutcomes
    /\ s_fetches' = [s_fetches EXCEPT ![s_shard] = @ + 1]
    /\ s_reqs' = Append(s_reqs, SearchRequest(NoUrl))
    /\ s_pc' = "raised"
    /\ UNCHANGED <<s_year, s_cap, s_shards, s_shard, s_next, s_params, s_pages,
                   s_index, s_seen>>
    /\ UNCHANGED <<fvars, rvars, wvars, ovars, evars>>

\* All shards done: return albums_index.
SearchReturn ==
    /\ s_pc = "loop"
    /\ s_shard > Len(s_shards)
    /\ s_pc' = "returned"
    /\ UNCHANGED <<s_year, s_cap, s_shards, s_shard, s_next, s_params, s_pages,
                   s_index, s_seen, s_fetches, s_reqs>>
    /\ UNCHANGED <<fvars, rvars, wvars, ovars, evars>>

SearchNext ==
    \/ \E items \in SearchPages, next \in CursorUrls \cup {NoUrl} : SearchPage(items, next)
    \/ SearchNoBlock
    \/ SearchFail
    \/ SearchReturn

RECURSIVE SearchChain(_, _, _, _, _)
\* The while loop of one shard from page i on, against a server that serves
\* the shard as the page chain `chain` (page i links to page i + 1; an empty
\* chain is a response without albums block), every Fetcher call returning.
SearchChain(index, chain, year, cap, i) ==
    IF i > Len(chain) THEN index
    ELSE LET indexed == IndexPage(index, chain[i], year, 1)
         IN IF i = Len(chain) \/ CapReached(cap, i) THEN indexed
            ELSE SearchChain(indexed, chain, year, cap, i + 1)

RECURSIVE SearchShards(_, _, _, _, _)
\* The for loop over the shards from shard s on; server[s] is the chain of shard s.
SearchShards(index, server, year, cap, s) ==
    IF s > Len(server) THEN index
    ELSE SearchShards(SearchChain(index, server[s], year, cap, 1), server, year, cap, s + 1)

\* search_albums_by_year against a server, every Fetcher call returning.
SearchAlbumsByYear(server, year, cap) == SearchShards(<< >>, server, year, cap, 1)

-----------------------------------------------------------------------------
(* Walker: fetch_album_tracks                                              *)

\* A track object of the album-tracks endpoint: its id and its artist ids
\* in credit order.
Track(id, artist_ids) == [id |-> id, name |-> id, artists |-> artist_ids]

\* The item lists a page of an album's tracks may carry.
TrackPages ==
    {<<Track(1, <<1>>)>>,
     <<Track(2, <<2, 1>>)>>,
     <<Track(1, <<1>>), Track(2, <<2, 1>>)>>,
     <<Track(3, <<3>>), Track(1, <<1>>)>>,
     << >>}

\* The page chains the endpoint may serve for a parent: page i carries a next
\* link to page i + 1, the last page carries none.
TrackChains == UNION {[1..k -> TrackPages] : k \in 1..MaxChain}

\* data.get("next") of page i of a chain: the link to page i + 1, or 0 (None).
NextLink(chain, i) == IF i < Len(chain) THEN i + 1 ELSE 0

\* tracks.extend(items)
ExtendReplacing(tracks, items) == items
Extend(tracks, items) == tracks \o items

\* The Fetcher call of the current iteration: the link it goes to (1 is the
\* base endpoint of the album), whether it carries the first-page params
\* (limit and market), and the next link its response carries (0 when it
\* carries none or the call raises).
WalkRequest(next) == [url |-> w_next, params |-> w_params, next |-> next]

\* One iteration of `while next_url` whose Fetcher call returns the page
\* next_url points to.
WalkPage ==
    /\ w_pc = "loop"
    /\ w_next \in DOMAIN w_chain
    /\ "returned" \in FetchOutcomes
    /\ w_fetches' = w_fetches + 1
    /\ w_reqs' = Append(w_reqs, WalkRequest(NextLink(w_chain, w_next)))
    /\ w_tracks' = Extend(w_tracks, w_chain[w_next])
    /\ w_next' = NextLink(w_chain, w_next)
    /\ w_params' = FollowParams(w_params)
    /\ UNCHANGED <<w_chain, w_pc>>
    /\ UNCHANGED <<fvars, rvars, svars, ovars, evars>>

\* An iteration whose Fetcher call raises.
WalkFail ==
    /\ w_pc = "loop"
    /\ w_next # 0
    /\ "raised" \in FetchOutcomes
    /\ w_fetches' = w_fetches + 1
    /\ w_reqs' = Append(w_reqs, WalkRequest(0))
    /\ w_pc' = "raised"
    /\ UNCHANGED <<w_chain, w_next, w_params, w_tracks>>
    /\ UNCHANGED <<fvars, rvars, svars, ovars, evars>>

\* next_url is falsy: return tracks.
WalkReturn ==
    /\ w_pc = "loop"
    /\ w_next = 0
    /\ w_pc' = "returned"
    /\ UNCHANGED <<w_chain, w_next, w_params, w_tracks, w_fetches, w_reqs>>
    /\ UNCHANGED <<fvars, rvars, svars, ovars, evars>>

WalkNext == WalkPage \/ WalkFail \/ WalkReturn

\* Links a server may hand out beyond the pages of the chain.
EndlessLinks == {MaxChain + 1, MaxChain + 2}

\* The histories keep the first HistoryLen Fetcher calls of a walk.
HistoryLen == MaxChain + 2

\* One iteration of `while next_url` against a server that answers the link
\* followed with a page without items carrying a further next link: nothing
\* is added to tracks and the loop goes on with that link.
WalkOn(next) ==
    /\ w_pc = "loop"
    /\ w_next # 0
    /\ next # w_next
    /\ "returned" \in FetchOutcomes
    /\ w_fetches' = IF w_fetches < HistoryLen THEN w_fetches + 1 ELSE w_fetches
    /\ w_reqs' = IF Len(w_reqs) < HistoryLen THEN Append(w_reqs, WalkRequest(next)) ELSE w_reqs
    /\ w_tracks' = Extend(w_tracks, << >>)
    /\ w_next' = next
    /\ w_params' = FollowParams(w_params)
    /\ UNCHANGED <<w_chain, w_pc>>
    /\ UNCHANGED <<fvars, rvars, svars, ovars, evars>>

\* A walk against a server free to go on handing out next links.
WalkLiveNext ==
    \/ WalkPage
    \/ \E next \in EndlessLinks : WalkOn(next)
    \/ WalkFail
    \/ WalkReturn

RECURSIVE WalkFrom(_, _, _)
\* The whole loop from link i on, when every Fetcher call returns.
WalkFrom(chain, i, tracks) ==
    IF i = 0 THEN tracks
    ELSE WalkFrom(chain, NextLink(chain, i), Extend(tracks, chain[i]))

\* fetch_album_tracks against a server serving chain.
FetchAlbumTracks(chain) == WalkFrom(chain, 1, << >>)

-----------------------------------------------------------------------------
(* Orchestrator: collect_year_tracks and main                              *)

\* What the search endpoint serves for the shards of BuildShards("letters"),
\* one page chain per shard: two shards that overlap on album 1; one shard
\* of two pages; nothing at all; albums of 2024 only.
SearchServers ==
    {<< <<PageOne>>, << >>, <<PageTwo>>, << >>, << >> >>,
     << <<PageOne, PageThree>>, << >>, << >>, << >>, <<<< >>>> >>,
     << << >>, << >>, << >>, << >>, << >> >>,
     << << >>, <<PageFour>>, << >>, <<PageThree>>, << >> >>}

\* What the album-tracks endpoint serves for each album: album 1 as the two
\* pages [track 1], [track 2]; album 2 as one page that repeats track 2;
\* album 3 with a track without artists and a track without identifier.
AlbumChain(album_id) ==
    CASE album_id = 1 -> << <<Track(1, <<1>>)>>, <<Track(2, <<2, 1>>)>> >>
      [] album_id = 2 -> << <<Track(2, <<2, 1>>), Track(3, <<EmptyId, 3>>)>> >>
      [] OTHER -> << <<Track(4, << >>), Track(EmptyId, <<2>>)>> >>

\* [aid for aid in artist_ids if aid], which the row keeps joined by ","
\* and the enrichment splits again: the same list for identifiers free of
\* commas and blanks.
ArtistIdsOf(t) == SelectSeq(t.artists, LAMBDA aid : aid # EmptyId)

\* The row appended for track t of album alb. The enrichment columns are
\* filled in later; until then they hold no value.
Row(year, market, alb, t) ==
    [year |-> year, market |-> market,
     album_id |-> alb.album_id, album_name |-> alb.album_name,
     release_date |-> alb.release_date,
     track_id |-> t.id, track_name |-> t.name,
     artist_ids |-> ArtistIdsOf(t),
     primary_artist_id |-> EmptyId,
     primary_artist_followers |-> NoneValue,
     primary_artist_genres |-> << >>,
     primary_artist_popularity |-> NoneValue,
     track_popularity |-> NoneValue]

RowsOf(year, market, alb, trks) == [i \in 1..Len(trks) |-> Row(year, market, alb, trks[i])]

RECURSIVE KeepFirst(_, _, _)
\* The rows from row i on whose track_id is not among seen, each id once.
KeepFirst(rows, i, seen) ==
    IF i > Len(rows) THEN << >>
    ELSE IF rows[i].track_id \in seen THEN KeepFirst(rows, i + 1, seen)
    ELSE <<rows[i]>> \o KeepFirst(rows, i + 1, seen \cup {rows[i].track_id})

\* df.drop_duplicates(subset=["track_id"]).reset_index(drop=True): the first
\* row of each track_id is kept (missing identifiers compare equal).
DropDuplicatesOff(rows) == rows
DropDuplicates(rows) == KeepFirst(rows, 1, {})

RECURSIVE ConcatFrames(_)
\* pd.concat(dfs, ignore_index=True)
ConcatFrames(dfs) == IF dfs = << >> THEN << >> ELSE Head(dfs) \o ConcatFrames(Tail(dfs))

\* m = meta.get(p, {}) if p else {}: the entry found, or the empty dict; a
\* lookup that does not raise.
MetaGetStrict(meta, p) ==
    IF p \in DOMAIN meta THEN [raised |-> FALSE, found |-> TRUE, m |-> meta[p]]
    ELSE [raised |-> TRUE, found |-> FALSE, m |-> ArtistMeta(NullEntity)]
MetaGet(meta, p) ==
    IF p # EmptyId /\ p \in DOMAIN meta
    THEN [raised |-> FALSE, found |-> TRUE, m |-> meta[p]]
    ELSE [raised |-> FALSE, found |-> FALSE, m |-> ArtistMeta(NullEntity)]

\* p = parts[0] if parts else None
PrimaryArtist(row) == IF row.artist_ids # << >> THEN row.artist_ids[1] ELSE EmptyId

\* The artist columns of one row: m.get("followers"), m.get("genres") or [],
\* m.get("popularity"), which give None, [], None on the empty dict.
EnrichArtistRow(row, meta) ==
    LET p == PrimaryArtist(row)
        look == MetaGet(meta, p)
    IN [raised |-> look.raised,
        row |-> [row EXCEPT !.primary_artist_id = p,
                            !.primary_artist_followers =
                                IF look.found THEN look.m.followers ELSE NoneValue,
                            !.primary_artist_genres =
                                IF look.found THEN look.m.genres ELSE << >>,
                            !.primary_artist_popularity =
                                IF look.found THEN look.m.popularity ELSE NoneValue]]

\* df["track_id"].map(pop_map): the value of the key, NaN when it is absent.
PopGet(pop, id) == IF id \in DOMAIN pop THEN pop[id] ELSE NoneValue

EnrichTrackRow(row, pop) == [row EXCEPT !.track_popularity = PopGet(pop, row.track_id)]

\* The identifiers a resolve call over ids sends, batch by batch.
BatchesOf(ids) == Chunked(Ascending(NonEmptyIds(ids)), BatchSize)

\* fetch_artists_meta / fetch_tracks_popularity against a server answering
\* in the given mode, every Fetcher call returning.
Resolve(kind, ids, mode) == ResolveAll(kind, BatchesOf(ids), mode, EmptyDict)

CurrentYear == o_years[o_yi]
CurrentMarket == o_markets[o_mi]

\* What os.getenv returns: None for a variable that is not set, else its
\* value, which may be the empty string.
Unset == [set |-> FALSE, value |-> ""]
EnvValues == {Unset, [set |-> TRUE, value |-> ""], [set |-> TRUE, value |-> "x"]}

\* `not v` for such a value.
FalsyUnsetOnly(v) == ~v.set
Falsy(v) == ~v.set \/ v.value = ""

\* The access tokens the accounts service may hand out, and the value of tok
\* before it does.
NoToken == ""
Tokens == {"token-1", "token-2"}

\* headers = {"Authorization": f"Bearer {tok}"}
BearerStale(tok) == [scheme |-> "Bearer", credential |-> <<NoToken>>]
Bearer(tok) == [scheme |-> "Bearer", credential |-> <<tok>>]

\* A request without a limit parameter.
NoLimit == 0

\* The POST of get_access_token: Basic authorization built from the client
\* identifier and secret.
TokenRequest ==
    [kind |-> "token",
     auth |-> [scheme |-> "Basic",
               credential |-> <<o_env.client_id.value, o_env.client_secret.value>>],
     period |-> 0, market |-> 0, key |-> << >>, limit |-> NoLimit]

\* --limit of parse_args: its default, and the values a caller may select.
ArgLimitDefault == 50
ArgLimits == {20, ArgLimitDefault}

\* The default of the limit parameter of search_albums_by_year.
SearchLimitDefault == 50

\* The limit search_albums_by_year runs with when collect_year_tracks calls
\* it: the call names tok, year, market, shards and max_pages_per_shard and
\* no limit, so the parameter keeps its default.
CollectLimit(args) == SearchLimitDefault

\* The limit parameter of a request: the first page of a shard carries the
\* params dict with the search's limit; followed links and the other
\* endpoints carry none.
LimitParam(kind, key) ==
    IF kind = "search" /\ key[2] = 1 THEN CollectLimit(o_args) ELSE NoLimit

\* A Fetcher call of the current collect: what it asks for (key), for which
\* period and market, the Authorization header and the limit it carries.
ApiRequest(kind, key) ==
    [kind |-> kind, auth |-> Bearer(o_tok), period |-> o_yi, market |-> o_mi, key |-> key,
     limit |-> LimitParam(kind, key)]

ApiRequests(kind, keys) == [i \in 1..Len(keys) |-> ApiRequest(kind, keys[i])]

RECURSIVE SearchFetches(_, _, _)
\* How many pages of a shard served as `chain` the while loop fetches, being
\* at page i (a response without albums block still costs its request).
SearchFetches(chain, cap, i) ==
    IF i >= Len(chain) \/ CapReached(cap, i) THEN i ELSE SearchFetches(chain, cap, i + 1)

RECURSIVE SearchKeys(_, _, _)
\* The <<shard, page>> pairs search_albums_by_year fetches from shard s on.
SearchKeys(server, cap, s) ==
    IF s > Len(server) THEN << >>
    ELSE [p \in 1..SearchFetches(server[s], cap, 1) |-> <<s, p>>]
             \o SearchKeys(server, cap, s + 1)

\* The <<album, page>> pairs fetch_album_tracks fetches for an album.
WalkKeys(album_id) == [p \in 1..Len(AlbumChain(album_id)) |-> <<album_id, p>>]

\* main, lines 338-342: the credentials check.
OStart ==
    /\ o_pc = "start"
    /\ IF Falsy(o_env.client_id) \/ Falsy(o_env.client_secret)
       THEN /\ o_pc' = "raised"
            /\ o_error' = "credentials"
       ELSE /\ o_pc' = "token"
            /\ o_error' = o_error
    /\ UNCHANGED <<o_years, o_markets, o_args, o_env, o_tok, o_log, o_yi, o_mi, o_albums,
                   o_ai, o_rows, o_artist_ids, o_df, o_meta, o_pop, o_dfs, o_files>>
    /\ UNCHANGED <<fvars, rvars, svars, wvars, evars>>

\* tok = get_access_token(client_id, client_secret), the service answering
\* with a token: the first collect of the first year follows.
OToken(tok) ==
    /\ o_pc = "token"
    /\ o_log' = Append(o_log, TokenRequest)
    /\ o_tok' = tok
    /\ o_pc' = "search"
    /\ UNCHANGED <<o_years, o_markets, o_args, o_env, o_yi, o_mi, o_albums, o_ai, o_rows,
                   o_artist_ids, o_df, o_meta, o_pop, o_dfs, o_files, o_error>>
    /\ UNCHANGED <<fvars, rvars, svars, wvars, evars>>

\* get_access_token raising (r.raise_for_status() on a 4xx or 5xx answer):
\* the request is not retried and the run ends.
OTokenFail ==
    /\ o_pc = "token"
    /\ o_log' = Append(o_log, TokenRequest)
    /\ o_pc' = "raised"
    /\ o_error' = "http"
    /\ UNCHANGED <<o_years, o_markets, o_args, o_env, o_tok, o_yi, o_mi, o_albums, o_ai,
                   o_rows, o_artist_ids, o_df, o_meta, o_pop, o_dfs, o_files>>
    /\ UNCHANGED <<fvars, rvars, svars, wvars, evars>>

\* collect_year_tracks, step 1: the search over all shards.
OSearch(server) ==
    /\ o_pc = "search"
    /\ "returned" \in FetchOutcomes
    /\ o_albums' = SearchAlbumsByYear(server, CurrentYear, o_args.max_pages)
    /\ o_log' = o_log \o ApiRequests("search", SearchKeys(server, o_args.max_pages, 1))
    /\ o_ai' = 1
    /\ o_rows' = << >>
    /\ o_artist_ids' = {}
    /\ o_df' = << >>
    /\ o_meta' = EmptyDict
    /\ o_pop' = EmptyDict
    /\ o_pc' = "walk"
    /\ UNCHANGED <<o_years, o_markets, o_args, o_env, o_tok, o_yi, o_mi, o_dfs, o_files,
                   o_error>>
    /\ UNCHANGED <<fvars, rvars, svars, wvars, evars>>

\* `for album_id, alb in albums_index.items()`: the i-th album the loop
\* visits, a dict being iterated in insertion order.
AlbumAtBackwards(albums, i) == albums[Len(albums) + 1 - i]
AlbumAt(albums, i) == albums[i]

\* Step 2, one album: walk its tracks, append a row per track and collect
\* the artist identifiers.
OWalk ==
    /\ o_pc = "walk"
    /\ o_ai <= Len(o_albums)
    /\ "returned" \in FetchOutcomes
    /\ LET alb == AlbumAt(o_albums, o_ai)
           trks == FetchAlbumTracks(AlbumChain(alb.album_id))
       IN /\ o_rows' = o_rows \o RowsOf(CurrentYear, CurrentMarket, alb, trks)
          /\ o_artist_ids' =
                o_artist_ids \cup UNION {Range(ArtistIdsOf(trks[i])) : i \in 1..Len(trks)}
    /\ o_log' = o_log \o ApiRequests("album_tracks", WalkKeys(AlbumAt(o_albums, o_ai).album_id))
    /\ o_ai' = o_ai + 1
    /\ UNCHANGED <<o_years, o_markets, o_args, o_env, o_tok, o_yi, o_mi, o_albums, o_df,
                   o_meta, o_pop, o_dfs, o_files, o_error, o_pc>>
    /\ UNCHANGED <<fvars, rvars, svars, wvars, evars>>

\* Step 3: df = pd.DataFrame(rows).drop_duplicates(subset=["track_id"]).
ODedup ==
    /\ o_pc = "walk"
    /\ o_ai > Len(o_albums)
    /\ o_df' = DropDuplicates(o_rows)
    /\ o_pc' = "artists"
    /\ UNCHANGED <<o_years, o_markets, o_args, o_env, o_tok, o_log, o_yi, o_mi, o_albums,
                   o_ai, o_rows, o_artist_ids, o_meta, o_pop, o_dfs, o_files, o_error>>
    /\ UNCHANGED <<fvars, rvars, svars, wvars, evars>>

\* Whether the artist / track enrichment runs, and whether it issues a request.
EnrichesArtists == o_args.enrich_artists /\ o_df # << >>
EnrichesTracks == o_args.enrich_tracks /\ o_df # << >>
TrackIds(rows) == [i \in 1..Len(rows) |-> rows[i].track_id]

\* Step 4: resolve all artist identifiers and attach the primary artist's
\* columns to every row.
OEnrichArtists(mode) ==
    /\ o_pc = "artists"
    /\ "returned" \in FetchOutcomes
    /\ IF EnrichesArtists
       THEN LET meta == Resolve("artists", Ascending(o_artist_ids), mode)
                done == [i \in 1..Len(o_df) |-> EnrichArtistRow(o_df[i], meta)]
            IN /\ o_meta' = meta
               /\ IF \E i \in 1..Len(done) : done[i].raised
                  THEN /\ o_pc' = "raised"
                       /\ o_error' = "lookup"
                       /\ o_df' = o_df
                  ELSE /\ o_pc' = "tracks"
                       /\ o_error' = o_error
                       /\ o_df' = [i \in 1..Len(done) |-> done[i].row]
       ELSE /\ o_pc' = "tracks"
            /\ UNCHANGED <<o_meta, o_error, o_df>>
    /\ o_log' = IF EnrichesArtists
                THEN o_log \o ApiRequests("artists", BatchesOf(Ascending(o_artist_ids)))
                ELSE o_log
    /\ UNCHANGED <<o_years, o_markets, o_args, o_env, o_tok, o_yi, o_mi, o_albums, o_ai,
                   o_rows, o_artist_ids, o_pop, o_dfs, o_files>>
    /\ UNCHANGED <<fvars, rvars, svars, wvars, evars>>

\* Step 5 and the return to main: resolve the popularity of the tracks of
\* df, attach it, and append the frame to dfs; then the next market, or the
\* merge when this was the last one.
OEnrichTracks(mode) ==
    /\ o_pc = "tracks"
    /\ "returned" \in FetchOutcomes
    /\ LET pop == IF EnrichesTracks THEN Resolve("tracks", TrackIds(o_df), mode)
                                    ELSE EmptyDict
           df == IF EnrichesTracks THEN [i \in 1..Len(o_df) |-> EnrichTrackRow(o_df[i], pop)]
                                   ELSE o_df
       IN /\ o_pop' = pop
          /\ o_df' = df
          /\ o_dfs' = Append(o_dfs, df)
    /\ IF o_mi < Len(o_markets)
       THEN /\ o_mi' = o_mi + 1
            /\ o_pc' = "search"
       ELSE /\ o_mi' = o_mi
            /\ o_pc' = "merge"
    /\ o_log' = IF EnrichesTracks
                THEN o_log \o ApiRequests("tracks", BatchesOf(TrackIds(o_df)))
                ELSE o_log
    /\ UNCHANGED <<o_years, o_markets, o_args, o_env, o_tok, o_yi, o_albums, o_ai, o_rows,
                   o_artist_ids, o_meta, o_files, o_error>>
    /\ UNCHANGED <<fvars, rvars, svars, wvars, evars>>

\* outpath = os.path.join(outdir, f"{args.outfile_prefix}_{year}.csv"): the
\* directory, the prefix and the extension are the same for every year of a
\* run, so the path is told by str(year).
OutPathShared(year) == Str(0)
OutPath(year) == Str(year)

\* main, after the markets of a year: concat, drop_duplicates, to_csv; then
\* the next year, or the end.
OMerge ==
    /\ o_pc = "merge"
    /\ o_files' = Append(o_files, [year |-> CurrentYear,
                                   path |-> OutPath(CurrentYear),
                                   rows |-> DropDuplicates(ConcatFrames(o_dfs)),
                                   complete |-> TRUE])
    /\ IF o_yi < Len(o_years)
       THEN /\ o_yi' = o_yi + 1
            /\ o_mi' = 1
            /\ o_dfs' = << >>
            /\ o_pc' = "search"
       ELSE /\ o_pc' = "done"
            /\ UNCHANGED <<o_yi, o_mi, o_dfs>>
    /\ UNCHANGED <<o_years, o_markets, o_args, o_env, o_tok, o_log, o_albums, o_ai,
                   o_rows, o_artist_ids, o_df, o_meta, o_pop, o_error>>
    /\ UNCHANGED <<fvars, rvars, svars, wvars, evars>>

\* Whether the current step issues at least one request.
IssuesRequest ==
    \/ o_pc = "search"
    \/ o_pc = "walk" /\ o_ai <= Len(o_albums)
    \/ o_pc = "artists" /\ EnrichesArtists /\ BatchesOf(Ascending(o_artist_ids)) # << >>
    \/ o_pc = "tracks" /\ EnrichesTracks /\ BatchesOf(TrackIds(o_df)) # << >>

\* The Fetcher calls the current step issues when all of them return, against
\* a search endpoint serving `server`.
StepKind ==
    CASE o_pc = "search" -> "search"
      [] o_pc = "walk" -> "album_tracks"
      [] o_pc = "artists" -> "artists"
      [] OTHER -> "tracks"

StepKeys(server) ==
    CASE o_pc = "search" -> SearchKeys(server, o_args.max_pages, 1)
      [] o_pc = "walk" /\ o_ai <= Len(o_albums) -> WalkKeys(AlbumAt(o_albums, o_ai).album_id)
      [] o_pc = "artists" /\ EnrichesArtists -> BatchesOf(Ascending(o_artist_ids))
      [] o_pc = "tracks" /\ EnrichesTracks -> BatchesOf(TrackIds(o_df))
      [] OTHER -> << >>

\* No step issues more Fetcher calls than a search fetching MaxPages pages
\* of every shard.
MostStepCalls == Len(ShardAlphabet) * MaxPages

\* The n-th Fetcher call of the current step raises after the ones before it
\* returned: nothing catches the exception and the run ends.
OFail(server, n) ==
    /\ IssuesRequest
    /\ "raised" \in FetchOutcomes
    /\ n \in 1..Len(StepKeys(server))
    /\ o_log' = o_log \o ApiRequests(StepKind, SubSeq(StepKeys(server), 1, n))
    /\ o_pc' = "raised"
    /\ o_error' = "http"
    /\ UNCHANGED <<o_years, o_markets, o_args, o_env, o_tok, o_yi, o_mi, o_albums, o_ai,
                   o_rows, o_artist_ids, o_df, o_meta, o_pop, o_dfs, o_files>>
    /\ UNCHANGED <<fvars, rvars, svars, wvars, evars>>

\* The steps during which the process runs.
Running == {"start", "token", "search", "walk", "artists", "tracks", "merge"}

\* The process is killed (keyboard interrupt or signal) before or during the
\* current step, outside to_csv: no handler exists and nothing is written.
OKill ==
    /\ o_pc \in Running
    /\ o_pc' = "killed"
    /\ o_error' = "killed"
    /\ UNCHANGED <<o_years, o_markets, o_args, o_env, o_tok, o_log, o_yi, o_mi, o_albums,
                   o_ai, o_rows, o_artist_ids, o_df, o_meta, o_pop, o_dfs, o_files>>
    /\ UNCHANGED <<fvars, rvars, svars, wvars, evars>>

\* The process is killed inside df_year.to_csv(outpath): the file has been
\* opened for writing and is left with what was flushed, here nothing.
OKillWriting ==
    /\ o_pc = "merge"
    /\ o_files' = Append(o_files, [year |-> CurrentYear,
                                   path |-> OutPath(CurrentYear),
                                   rows |-> << >>,
                                   complete |-> FALSE])
    /\ o_pc' = "killed"
    /\ o_error' = "killed"
    /\ UNCHANGED <<o_years, o_markets, o_args, o_env, o_tok, o_log, o_yi, o_mi, o_albums,
                   o_ai, o_rows, o_artist_ids, o_df, o_meta, o_pop, o_dfs>>
    /\ UNCHANGED <<fvars, rvars, svars, wvars, evars>>

MainNext ==
    \/ OStart
    \/ \E tok \in Tokens : OToken(tok)
    \/ OTokenFail
    \/ \E server \in SearchServers : OSearch(server)
    \/ OWalk
    \/ ODedup
    \/ \E mode \in {"known", "all"} : OEnrichArtists(mode)
    \/ \E mode \in {"known", "all"} : OEnrichTracks(mode)
    \/ OMerge
    \/ \E server \in SearchServers, n \in 1..MostStepCalls : OFail(server, n)
    \/ OKill
    \/ OKillWriting

-----------------------------------------------------------------------------
(* Artist explorer: search_artists                                         *)

\* The "popularity" entry of an artist the service returns: the key may be
\* missing, hold null, or hold a number.
PopularityAbsent == [has |-> FALSE, null |-> FALSE, value |-> 0]
PopularityNull == [has |-> TRUE, null |-> TRUE, value |-> 0]
Popularity(n) == [has |-> TRUE, null |-> FALSE, value |-> n]

Artist(id, popularity) == [id |-> id, popularity |-> popularity]

\* results["artists"]["items"] of a response: no artist, or one or two of
\* them with a high, a low, a zero, a missing or a null popularity.
ArtistPages ==
    {<< >>,
     <<Artist(1, Popularity(90))>>,
     <<Artist(2, Popularity(40)), Artist(3, PopularityAbsent)>>,
     <<Artist(4, Popularity(0)), Artist(1, Popularity(90))>>,
     <<Artist(3, PopularityAbsent)>>,
     <<Artist(2, Popularity(40)), Artist(5, PopularityNull)>>}

\* The arguments of a call: the explorer's form offers a limit of 1..50,
\* 1..10 pages, a minimum popularity of 0..100 and an offset >= 0; the
\* function itself takes any int, pages = 0 included.
ExplorerArgs ==
    [limit : {1, 2}, pages : 0..MaxArtistPages, min_popularity : {0, 50}, offset : {0, 4}]

\* artist.get("popularity", 0)
PopularityOrZero(artist) ==
    IF artist.popularity.has THEN artist.popularity ELSE Popularity(0)

\* `artist.get("popularity", 0) < min_popularity` raises TypeError when the
\* entry holds null.
ComparisonRaises(artist) == PopularityOrZero(artist).null

\* Whether the `continue` of the filter is taken.
BelowMinimum(artist, min_popularity) == PopularityOrZero(artist).value < min_popularity

\* The dict appended for an artist: "popularity" is artist.get("popularity"),
\* None when the key is missing.
ArtistRow(artist) ==
    [id |-> artist.id,
     popularity |-> IF artist.popularity.has /\ ~artist.popularity.null
                    THEN Some(artist.popularity.value) ELSE NoneValue]

RECURSIVE KeepArtists(_, _, _, _)
\* `for artist in items`, from item i on: the list after the loop, and
\* whether the comparison raised on the way.
KeepArtists(artists, items, min_popularity, i) ==
    IF i > Len(items) THEN [artists |-> artists, raised |-> FALSE]
    ELSE IF ComparisonRaises(items[i]) THEN [artists |-> artists, raised |-> TRUE]
    ELSE IF BelowMinimum(items[i], min_popularity)
         THEN KeepArtists(artists, items, min_popularity, i + 1)
         ELSE KeepArtists(Append(artists, ArtistRow(items[i])), items, min_popularity, i + 1)

\* current_offset += limit
AdvanceOffsetByOne(current_offset, limit) == current_offset + 1
AdvanceOffset(current_offset, limit) == current_offset + limit

\* The sp_client.search call of the current iteration, and what it got.
ExploreRequest(answered, items, next) ==
    [offset |-> e_current_offset,
     limit |-> e_args.limit,
     answered |-> answered,
     items |-> Len(items),
     next |-> next]

\* One iteration of `for _ in range(pages)` whose search call is answered
\* with a page of at most limit items and, or not, a next link: an empty
\* page or a page without next link ends the call with next_offset None.
ExplorePage(items, next) ==
    /\ e_pc = "loop"
    /\ e_count < e_args.pages
    /\ Len(items) <= e_args.limit
    /\ e_count' = e_count + 1
    /\ e_reqs' = Append(e_reqs, ExploreRequest(TRUE, items, next))
    /\ LET kept == KeepArtists(e_artists, items, e_args.min_popularity, 1)
       IN /\ e_artists' = kept.artists
          /\ IF items = << >>
             THEN /\ e_next_offset' = NoneValue
                  /\ e_current_offset' = e_current_offset
                  /\ e_pc' = "returned"
             ELSE IF kept.raised
             THEN /\ e_next_offset' = e_next_offset
                  /\ e_current_offset' = e_current_offset
                  /\ e_pc' = "raised"
             ELSE IF next
             THEN /\ e_current_offset' = AdvanceOffset(e_current_offset, e_args.limit)
                  /\ e_next_offset' = Some(AdvanceOffset(e_current_offset, e_args.limit))
                  /\ e_pc' = "loop"
             ELSE /\ e_next_offset' = NoneValue
                  /\ e_current_offset' = e_current_offset
                  /\ e_pc' = "returned"
    /\ UNCHANGED e_args
    /\ UNCHANGED <<fvars, rvars, svars, wvars, ovars>>

\* sp_client.search raises (an HTTP error, the network): the call raises.
ExploreFail ==
    /\ e_pc = "loop"
    /\ e_count < e_args.pages
    /\ e_count' = e_count + 1
    /\ e_reqs' = Append(e_reqs, ExploreRequest(FALSE, << >>, FALSE))
    /\ e_pc' = "raised"
    /\ UNCHANGED <<e_args, e_current_offset, e_next_offset, e_artists>>
    /\ UNCHANGED <<fvars, rvars, svars, wvars, ovars>>

\* The for loop has run `pages` times: return artists, next_offset.
ExploreReturn ==
    /\ e_pc = "loop"
    /\ ~(e_count < e_args.pages)
    /\ e_pc' = "returned"
    /\ UNCHANGED <<e_args, e_count, e_current_offset, e_next_offset, e_artists, e_reqs>>
    /\ UNCHANGED <<fvars, rvars, svars, wvars, ovars>>

ExploreNext ==
    \/ \E items \in ArtistPages, next \in BOOLEAN : ExplorePage(items, next)
    \/ ExploreFail
    \/ ExploreReturn

-----------------------------------------------------------------------------
(* Specifications: one per component, the other components idle           *)

\* One call of the Fetcher, for every max_retries and every response sequence.
FetchInit ==
    /\ e_args = [limit |-> 1, pages |-> 0, min_popularity |-> 0, offset |-> 0]
    /\ e_count = 0
    /\ e_current_offset = 0
    /\ e_next_offset = NoneValue
    /\ e_artists = << >>
    /\ e_reqs = << >>
    /\ e_pc = "idle"
    /\ max_retries \in 0..MaxRetries
    /\ attempt = 0
    /\ flog = << >>
    /\ clock = 0
    /\ fpc = IF InRange(0, max_retries) THEN "loop" ELSE "exhausted"
    /\ r_kind = "artists"
    /\ r_input = << >>
    /\ r_todo = << >>
    /\ r_sent = << >>
    /\ r_meta = EmptyDict
    /\ r_pc = "idle"
    /\ s_year = 0
    /\ s_cap = 0
    /\ s_shards = << >>
    /\ s_shard = 1
    /\ s_next = NoUrl
    /\ s_params = FALSE
    /\ s_pages = 0
    /\ s_index = << >>
    /\ s_seen = {}
    /\ s_fetches = << >>
    /\ s_reqs = << >>
    /\ s_pc = "idle"
    /\ w_chain = << >>
    /\ w_next = 0
    /\ w_params = FALSE
    /\ w_tracks = << >>
    /\ w_fetches = 0
    /\ w_reqs = << >>
    /\ w_pc = "idle"
    /\ o_years = << >>
    /\ o_markets = << >>
    /\ o_args = [enrich_artists |-> FALSE, enrich_tracks |-> FALSE, max_pages |-> 0,
                 limit |-> ArgLimitDefault]
    /\ o_yi = 1
    /\ o_mi = 1
    /\ o_albums = << >>
    /\ o_ai = 1
    /\ o_rows = << >>
    /\ o_artist_ids = {}
    /\ o_df = << >>
    /\ o_meta = EmptyDict
    /\ o_pop = EmptyDict
    /\ o_dfs = << >>
    /\ o_files = << >>
    /\ o_error = "none"
    /\ o_env = [client_id |-> Unset, client_secret |-> Unset]
    /\ o_tok = NoToken
    /\ o_log = << >>
    /\ o_pc = "idle"

FetchSpec == FetchInit /\ [][FetchNext]_vars

\* One call of a Batch Resolver, for every input and every reply.
ResolveInit ==
    /\ e_args = [limit |-> 1, pages |-> 0, min_popularity |-> 0, offset |-> 0]
    /\ e_count = 0
    /\ e_current_offset = 0
    /\ e_next_offset = NoneValue
    /\ e_artists = << >>
    /\ e_reqs = << >>
    /\ e_pc = "idle"
    /\ r_kind \in {"artists", "tracks"}
    /\ r_input \in ResolverInputs
    /\ \E unique \in UniqueLists(r_input) : r_todo = Chunked(unique, BatchSize)
    /\ r_sent = << >>
    /\ r_meta = EmptyDict
    /\ r_pc = "loop"
    /\ max_retries = DefaultMaxRetries
    /\ attempt = 0
    /\ flog = << >>
    /\ clock = 0
    /\ fpc = "idle"
    /\ s_year = 0
    /\ s_cap = 0
    /\ s_shards = << >>
    /\ s_shard = 1
    /\ s_next = NoUrl
    /\ s_params = FALSE
    /\ s_pages = 0
    /\ s_index = << >>
    /\ s_seen = {}
    /\ s_fetches = << >>
    /\ s_reqs = << >>
    /\ s_pc = "idle"
    /\ w_chain = << >>
    /\ w_next = 0
    /\ w_params = FALSE
    /\ w_tracks = << >>
    /\ w_fetches = 0
    /\ w_reqs = << >>
    /\ w_pc = "idle"
    /\ o_years = << >>
    /\ o_markets = << >>
    /\ o_args = [enrich_artists |-> FALSE, enrich_tracks |-> FALSE, max_pages |-> 0,
                 limit |-> ArgLimitDefault]
    /\ o_yi = 1
    /\ o_mi = 1
    /\ o_albums = << >>
    /\ o_ai = 1
    /\ o_rows = << >>
    /\ o_artist_ids = {}
    /\ o_df = << >>
    /\ o_meta = EmptyDict
    /\ o_pop = EmptyDict
    /\ o_dfs = << >>
    /\ o_files = << >>
    /\ o_error = "none"
    /\ o_env = [client_id |-> Unset, client_secret |-> Unset]
    /\ o_tok = NoToken
    /\ o_log = << >>
    /\ o_pc = "idle"

ResolveSpec == ResolveInit /\ [][ResolveNext]_vars

\* One call of the Searcher, for every year, cap, alphabet and server.
SearchInit ==
    /\ e_args = [limit |-> 1, pages |-> 0, min_popularity |-> 0, offset |-> 0]
    /\ e_count = 0
    /\ e_current_offset = 0
    /\ e_next_offset = NoneValue
    /\ e_artists = << >>
    /\ e_reqs = << >>
    /\ e_pc = "idle"
    /\ s_year \in Years
    /\ s_cap \in 0..MaxCap
    /\ s_shards \in {SubSeq(ShardAlphabet, 1, n) : n \in 0..MaxShards}
    /\ s_shard = 1
    /\ s_next = SearchUrl
    /\ s_params = TRUE
    /\ s_pages = 0
    /\ s_index = << >>
    /\ s_seen = {}
    /\ s_fetches = [i \in 1..Len(s_shards) |-> 0]
    /\ s_reqs = << >>
    /\ s_pc = "loop"
    /\ max_retries = DefaultMaxRetries
    /\ attempt = 0
    /\ flog = << >>
    /\ clock = 0
    /\ fpc = "idle"
    /\ r_kind = "artists"
    /\ r_input = << >>
    /\ r_todo = << >>
    /\ r_sent = << >>
    /\ r_meta = EmptyDict
    /\ r_pc = "idle"
    /\ w_chain = << >>
    /\ w_next = 0
    /\ w_params = FALSE
    /\ w_tracks = << >>
    /\ w_fetches = 0
    /\ w_reqs = << >>
    /\ w_pc = "idle"
    /\ o_years = << >>
    /\ o_markets = << >>
    /\ o_args = [enrich_artists |-> FALSE, enrich_tracks |-> FALSE, max_pages |-> 0,
                 limit |-> ArgLimitDefault]
    /\ o_yi = 1
    /\ o_mi = 1
    /\ o_albums = << >>
    /\ o_ai = 1
    /\ o_rows = << >>
    /\ o_artist_ids = {}
    /\ o_df = << >>
    /\ o_meta = EmptyDict
    /\ o_pop = EmptyDict
    /\ o_dfs = << >>
    /\ o_files = << >>
    /\ o_error = "none"
    /\ o_env = [client_id |-> Unset, client_secret |-> Unset]
    /\ o_tok = NoToken
    /\ o_log = << >>
    /\ o_pc = "idle"

SearchSpec == SearchInit /\ [][SearchNext]_vars

\* One call of the Walker, for every page chain.
WalkInit ==
    /\ e_args = [limit |-> 1, pages |-> 0, min_popularity |-> 0, offset |-> 0]
    /\ e_count = 0
    /\ e_current_offset = 0
    /\ e_next_offset = NoneValue
    /\ e_artists = << >>
    /\ e_reqs = << >>
    /\ e_pc = "idle"
    /\ w_chain \in TrackChains
    /\ w_next = 1
    /\ w_params = TRUE
    /\ w_tracks = << >>
    /\ w_fetches = 0
    /\ w_reqs = << >>
    /\ w_pc = "loop"
    /\ max_retries = DefaultMaxRetries
    /\ attempt = 0
    /\ flog = << >>
    /\ clock = 0
    /\ fpc = "idle"
    /\ r_kind = "artists"
    /\ r_input = << >>
    /\ r_todo = << >>
    /\ r_sent = << >>
    /\ r_meta = EmptyDict
    /\ r_pc = "idle"
    /\ s_year = 0
    /\ s_cap = 0
    /\ s_shards = << >>
    /\ s_shard = 1
    /\ s_next = NoUrl
    /\ s_params = FALSE
    /\ s_pages = 0
    /\ s_index = << >>
    /\ s_seen = {}
    /\ s_fetches = << >>
    /\ s_reqs = << >>
    /\ s_pc = "idle"
    /\ o_years = << >>
    /\ o_markets = << >>
    /\ o_args = [enrich_artists |-> FALSE, enrich_tracks |-> FALSE, max_pages |-> 0,
                 limit |-> ArgLimitDefault]
    /\ o_yi = 1
    /\ o_mi = 1
    /\ o_albums = << >>
    /\ o_ai = 1
    /\ o_rows = << >>
    /\ o_artist_ids = {}
    /\ o_df = << >>
    /\ o_meta = EmptyDict
    /\ o_pop = EmptyDict
    /\ o_dfs = << >>
    /\ o_files = << >>
    /\ o_error = "none"
    /\ o_env = [client_id |-> Unset, client_secret |-> Unset]
    /\ o_tok = NoToken
    /\ o_log = << >>
    /\ o_pc = "idle"

WalkSpec == WalkInit /\ [][WalkNext]_vars

\* The same call against a server whose next links need not end. The loop is
\* sequential code and every Fetcher call ends (at most max_retries
\* requests), so the walk always takes its next step: weak fairness.
WalkLiveSpec == WalkInit /\ [][WalkLiveNext]_vars /\ WF_vars(WalkLiveNext)

\* A run of main over its years and markets, every switch either way.
MainInit ==
    /\ e_args = [limit |-> 1, pages |-> 0, min_popularity |-> 0, offset |-> 0]
    /\ e_count = 0
    /\ e_current_offset = 0
    /\ e_next_offset = NoneValue
    /\ e_artists = << >>
    /\ e_reqs = << >>
    /\ e_pc = "idle"
    /\ o_years \in {<<2023>>, <<2024, 2023>>}
    /\ o_markets \in {<<"BR">>, <<"BR", "US">>}
    /\ o_args \in [enrich_artists : BOOLEAN, enrich_tracks : BOOLEAN, max_pages : {0, 1},
                    limit : {ArgLimitDefault}]
    /\ o_yi = 1
    /\ o_mi = 1
    /\ o_albums = << >>
    /\ o_ai = 1
    /\ o_rows = << >>
    /\ o_artist_ids = {}
    /\ o_df = << >>
    /\ o_meta = EmptyDict
    /\ o_pop = EmptyDict
    /\ o_dfs = << >>
    /\ o_files = << >>
    /\ o_error = "none"
    /\ o_env \in [client_id : EnvValues, client_secret : EnvValues]
    /\ o_tok = NoToken
    /\ o_log = << >>
    /\ o_pc = "start"
    /\ max_retries = DefaultMaxRetries
    /\ attempt = 0
    /\ flog = << >>
    /\ clock = 0
    /\ fpc = "idle"
    /\ r_kind = "artists"
    /\ r_input = << >>
    /\ r_todo = << >>
    /\ r_sent = << >>
    /\ r_meta = EmptyDict
    /\ r_pc = "idle"
    /\ s_year = 0
    /\ s_cap = 0
    /\ s_shards = << >>
    /\ s_shard = 1
    /\ s_next = NoUrl
    /\ s_params = FALSE
    /\ s_pages = 0
    /\ s_index = << >>
    /\ s_seen = {}
    /\ s_fetches = << >>
    /\ s_reqs = << >>
    /\ s_pc = "idle"
    /\ w_chain = << >>
    /\ w_next = 0
    /\ w_params = FALSE
    /\ w_tracks = << >>
    /\ w_fetches = 0
    /\ w_reqs = << >>
    /\ w_pc = "idle"

MainSpec == MainInit /\ [][MainNext]_vars

\* A run whose caller selects --limit: the credentials are set and both
\* enrichments are switched off (--no-enrich-artists --no-enrich-track-pop).
CliInit ==
    /\ e_args = [limit |-> 1, pages |-> 0, min_popularity |-> 0, offset |-> 0]
    /\ e_count = 0
    /\ e_current_offset = 0
    /\ e_next_offset = NoneValue
    /\ e_artists = << >>
    /\ e_reqs = << >>
    /\ e_pc = "idle"
    /\ o_years \in {<<2023>>, <<2024, 2023>>}
    /\ o_markets \in {<<"BR">>, <<"BR", "US">>}
    /\ o_args \in [enrich_artists : {FALSE}, enrich_tracks : {FALSE}, max_pages : {0, 1},
                    limit : ArgLimits]
    /\ o_yi = 1
    /\ o_mi = 1
    /\ o_albums = << >>
    /\ o_ai = 1
    /\ o_rows = << >>
    /\ o_artist_ids = {}
    /\ o_df = << >>
    /\ o_meta = EmptyDict
    /\ o_pop = EmptyDict
    /\ o_dfs = << >>
    /\ o_files = << >>
    /\ o_error = "none"
    /\ o_env \in [client_id : EnvValues \ {v \in EnvValues : Falsy(v)},
                   client_secret : EnvValues \ {v \in EnvValues : Falsy(v)}]
    /\ o_tok = NoToken
    /\ o_log = << >>
    /\ o_pc = "start"
    /\ max_retries = DefaultMaxRetries
    /\ attempt = 0
    /\ flog = << >>
    /\ clock = 0
    /\ fpc = "idle"
    /\ r_kind = "artists"
    /\ r_input = << >>
    /\ r_todo = << >>
    /\ r_sent = << >>
    /\ r_meta = EmptyDict
    /\ r_pc = "idle"
    /\ s_year = 0
    /\ s_cap = 0
    /\ s_shards = << >>
    /\ s_shard = 1
    /\ s_next = NoUrl
    /\ s_params = FALSE
    /\ s_pages = 0
    /\ s_index = << >>
    /\ s_seen = {}
    /\ s_fetches = << >>
    /\ s_reqs = << >>
    /\ s_pc = "idle"
    /\ w_chain = << >>
    /\ w_next = 0
    /\ w_params = FALSE
    /\ w_tracks = << >>
    /\ w_fetches = 0
    /\ w_reqs = << >>
    /\ w_pc = "idle"

CliSpec == CliInit /\ [][MainNext]_vars

\* One paged call: either the Searcher runs (s_pc = "loop") and the Walker
\* is idle, or the Walker runs and the Searcher is idle.
PagingInit ==
    /\ e_args = [limit |-> 1, pages |-> 0, min_popularity |-> 0, offset |-> 0]
    /\ e_count = 0
    /\ e_current_offset = 0
    /\ e_next_offset = NoneValue
    /\ e_artists = << >>
    /\ e_reqs = << >>
    /\ e_pc = "idle"
    /\ s_pc \in {"loop", "idle"}
    /\ s_year \in IF s_pc = "loop" THEN Years ELSE {0}
    /\ s_cap \in IF s_pc = "loop" THEN 0..MaxCap ELSE {0}
    /\ s_shards \in IF s_pc = "loop"
                     THEN {SubSeq(ShardAlphabet, 1, n) : n \in 0..MaxShards}
                     ELSE {<< >>}
    /\ s_shard = 1
    /\ s_next = IF s_pc = "loop" THEN SearchUrl ELSE NoUrl
    /\ s_params = (s_pc = "loop")
    /\ s_pages = 0
    /\ s_index = << >>
    /\ s_seen = {}
    /\ s_fetches = [i \in 1..Len(s_shards) |-> 0]
    /\ s_reqs = << >>
    /\ w_pc = IF s_pc = "loop" THEN "idle" ELSE "loop"
    /\ w_chain \in IF w_pc = "loop" THEN TrackChains ELSE {<< >>}
    /\ w_next = IF w_pc = "loop" THEN 1 ELSE 0
    /\ w_params = (w_pc = "loop")
    /\ w_tracks = << >>
    /\ w_fetches = 0
    /\ w_reqs = << >>
    /\ max_retries = DefaultMaxRetries
    /\ attempt = 0
    /\ flog = << >>
    /\ clock = 0
    /\ fpc = "idle"
    /\ r_kind = "artists"
    /\ r_input = << >>
    /\ r_todo = << >>
    /\ r_sent = << >>
    /\ r_meta = EmptyDict
    /\ r_pc = "idle"
    /\ o_years = << >>
    /\ o_markets = << >>
    /\ o_args = [enrich_artists |-> FALSE, enrich_tracks |-> FALSE, max_pages |-> 0,
                 limit |-> ArgLimitDefault]
    /\ o_yi = 1
    /\ o_mi = 1
    /\ o_albums = << >>
    /\ o_ai = 1
    /\ o_rows = << >>
    /\ o_artist_ids = {}
    /\ o_df = << >>
    /\ o_meta = EmptyDict
    /\ o_pop = EmptyDict
    /\ o_dfs = << >>
    /\ o_files = << >>
    /\ o_error = "none"
    /\ o_env = [client_id |-> Unset, client_secret |-> Unset]
    /\ o_tok = NoToken
    /\ o_log = << >>
    /\ o_pc = "idle"

PagingNext ==
    \/ \E items \in SearchPages, next \in CursorUrls \cup {NoUrl} : SearchPage(items, next)
    \/ SearchNoBlock
    \/ SearchFail
    \/ SearchReturn
    \/ WalkPage
    \/ WalkFail
    \/ WalkReturn

PagingSpec == PagingInit /\ [][PagingNext]_vars

\* One call of search_artists, for every argument tuple and every sequence
\* of answers.
ExploreInit ==
    /\ e_args \in ExplorerArgs
    /\ e_count = 0
    /\ e_current_offset = e_args.offset
    /\ e_next_offset = NoneValue
    /\ e_artists = << >>
    /\ e_reqs = << >>
    /\ e_pc = "loop"
    /\ max_retries = DefaultMaxRetries
    /\ attempt = 0
    /\ flog = << >>
    /\ clock = 0
    /\ fpc = "idle"
    /\ r_kind = "artists"
    /\ r_input = << >>
    /\ r_todo = << >>
    /\ r_sent = << >>
    /\ r_meta = EmptyDict
    /\ r_pc = "idle"
    /\ s_year = 0
    /\ s_cap = 0
    /\ s_shards = << >>
    /\ s_shard = 1
    /\ s_next = NoUrl
    /\ s_params = FALSE
    /\ s_pages = 0
    /\ s_index = << >>
    /\ s_seen = {}
    /\ s_fetches = << >>
    /\ s_reqs = << >>
    /\ s_pc = "idle"
    /\ w_chain = << >>
    /\ w_next = 0
    /\ w_params = FALSE
    /\ w_tracks = << >>
    /\ w_fetches = 0
    /\ w_reqs = << >>
    /\ w_pc = "idle"
    /\ o_years = << >>
    /\ o_markets = << >>
    /\ o_args = [enrich_artists |-> FALSE, enrich_tracks |-> FALSE, max_pages |-> 0,
                 limit |-> ArgLimitDefault]
    /\ o_yi = 1
    /\ o_mi = 1
    /\ o_albums = << >>
    /\ o_ai = 1
    /\ o_rows = << >>
    /\ o_artist_ids = {}
    /\ o_df = << >>
    /\ o_meta = EmptyDict
    /\ o_pop = EmptyDict
    /\ o_dfs = << >>
    /\ o_files = << >>
    /\ o_error = "none"
    /\ o_env = [client_id |-> Unset, client_secret |-> Unset]
    /\ o_tok = NoToken
    /\ o_log = << >>
    /\ o_pc = "idle"


ExploreSpec == ExploreInit /\ [][ExploreNext]_vars

-----------------------------------------------------------------------------
(* Properties of the Fetcher (FetchSpec)                                   *)

AllRetryable == \A i \in 1..Len(flog) : Retryable(flog[i].status)

FetchEnded == fpc \in {"returned", "raised"}

HintSeconds(hdr) == CHOOSE n \in 0..MaxWait : Str(n) = hdr.value

\* C3: after a 429 response carrying a wait hint of w seconds the next
\* request of the call is issued no earlier than w seconds after it; a 429
\* without hint is followed by a wait of the fixed fallback of 1 second.
C3_NextRequestHonoursRetryAfter ==
    \A i \in 1..Len(flog) :
        flog[i].status = 429 =>
            /\ flog[i].retry_after.present =>
                  /\ flog[i].sleep = HintSeconds(flog[i].retry_after)
                  /\ i < Len(flog) =>
                        flog[i + 1].at >= flog[i].at + HintSeconds(flog[i].retry_after)
            /\ ~flog[i].retry_after.present =>
                  /\ flog[i].sleep = 1
                  /\ i < Len(flog) => flog[i + 1].at >= flog[i].at + 1

\* A 429 with the longest hint and a 429 without hint, each followed by
\* another request.
C3_Witness ==
    \E i, j \in 1..(Len(flog) - 1) :
        /\ flog[i].status = 429
        /\ flog[i].retry_after.present
        /\ HintSeconds(flog[i].retry_after) = MaxWait
        /\ flog[i + 1].at = flog[i].at + MaxWait
        /\ flog[j].status = 429
        /\ ~flog[j].retry_after.present

\* A 2xx status.
IsSuccess(status) == 200 <= status /\ status < 300

\* C11: a response whose status is not 2xx, not 429 and not 5xx makes the
\* call fail on that very attempt: it is the last request of the call, no
\* sleep follows it and the call ends by raising.
C11_OtherStatusFailsAtOnce ==
    \A i \in 1..Len(flog) :
        (~IsSuccess(flog[i].status) /\ ~Retryable(flog[i].status)) =>
            /\ i = Len(flog)
            /\ ~flog[i].slept
            /\ fpc = "raised"

\* C20: the sleep after a 5xx response received on the attempt with 0-based
\* index k is 1 + k seconds and the next request waits for it, so the
\* backoffs of successive 5xx responses of one call are strictly increasing,
\* also with 429 responses between them.
C20_BackoffGrowsWithAttempt ==
    /\ \A i \in 1..Len(flog) :
          IsServerError(flog[i].status) =>
              /\ flog[i].attempt = i - 1
              /\ flog[i].slept
              /\ flog[i].sleep = 1 + (i - 1)
              /\ i < Len(flog) => flog[i + 1].at = flog[i].at + 1 + (i - 1)
    /\ \A i, j \in 1..Len(flog) :
          (i < j /\ IsServerError(flog[i].status) /\ IsServerError(flog[j].status)) =>
              flog[i].sleep < flog[j].sleep

\* Two 5xx responses with a 429 between them, the second 5xx being followed
\* by another request: backoffs of 1 and 3 seconds.
C20_Witness ==
    /\ Len(flog) >= 4
    /\ IsServerError(flog[1].status)
    /\ flog[2].status = 429
    /\ IsServerError(flog[3].status)
    /\ flog[1].sleep = 1
    /\ flog[3].sleep = 3
    /\ flog[4].at = flog[3].at + 3

\* The requests of the call that were followed by a sleep.
SleptRequests == {i \in 1..Len(flog) : flog[i].slept}

-----------------------------------------------------------------------------
(* Properties of the Batch Resolver (ResolveSpec)                          *)

\* C4: every request of a resolve call carries at least 1 and at most 50
\* identifiers, and no request is issued when the input has no non-empty
\* identifier.
C4_BatchSizeWithinBounds ==
    /\ \A i \in 1..Len(r_sent) : 1 <= Len(r_sent[i]) /\ Len(r_sent[i]) <= 50
    /\ (\A i \in 1..Len(r_input) : r_input[i] = EmptyId) => r_sent = << >>

\* A call over more than two full batches: two requests of 50 identifiers
\* and a last one of fewer.
C4_Witness ==
    /\ r_pc = "returned"
    /\ Len(r_sent) = 3
    /\ Len(r_sent[1]) = 50
    /\ Len(r_sent[2]) = 50
    /\ Len(r_sent[3]) < 50

\* C5: the key set of the mapping a resolve call returns is a subset of the
\* input identifier set, for every reply of the server.
C5_KeysSubsetOfInput == DOMAIN r_meta \subseteq Range(r_input)

\* The identifiers sent so far, over all requests of the call.
SentIds == UNION {Range(r_sent[i]) : i \in 1..Len(r_sent)}

RECURSIVE SentCount(_)
\* How many identifiers the first n requests of the call carried.
SentCount(n) == IF n = 0 THEN 0 ELSE Len(r_sent[n]) + SentCount(n - 1)

\* ceil(a / b) for b > 0.
CeilDiv(a, b) == (a + b - 1) \div b

\* C12: the input is deduplicated before batching: no identifier is sent in
\* two requests of the call nor twice within one request, the empty
\* identifier is never sent, and with d distinct non-empty input identifiers
\* the call issues one Fetcher call per batch, ceil(d / 50) in all when it
\* returns (a call ended by a terminal Fetcher failure has issued no more).
C12_DeduplicatedBeforeBatching ==
    LET d == Cardinality(NonEmptyIds(r_input))
    IN /\ Cardinality(SentIds) = SentCount(Len(r_sent))
       /\ EmptyId \notin SentIds
       /\ SentIds \subseteq Range(r_input)
       /\ r_pc = "loop" => Len(r_sent) + Len(r_todo) = CeilDiv(d, 50)
       /\ r_pc = "returned" => (Len(r_sent) = CeilDiv(d, 50) /\ SentIds = NonEmptyIds(r_input))
       /\ r_pc = "raised" => Len(r_sent) <= CeilDiv(d, 50)

\* A returned call whose input repeats an identifier and holds the empty
\* one, with exactly 50 distinct identifiers: one request.
C12_Witness ==
    /\ r_pc = "returned"
    /\ Len(r_input) > Cardinality(Range(r_input))
    /\ EmptyId \in Range(r_input)
    /\ Cardinality(NonEmptyIds(r_input)) = 50
    /\ Len(r_sent) = 1

-----------------------------------------------------------------------------
(* Properties of the Searcher (SearchSpec)                                 *)

RECURSIVE SumTo(_, _)
SumTo(f, n) == IF n = 0 THEN 0 ELSE f[n] + SumTo(f, n - 1)

TotalFetches == SumTo(s_fetches, Len(s_fetches))

\* C6: with an alphabet of N shards and a page cap c >= 1, a search performs
\* at most c page fetches for each shard and at most N x c in all, whatever
\* next links the server returns.
C6_FetchesWithinCap ==
    s_cap >= 1 =>
        /\ \A i \in 1..Len(s_fetches) : s_fetches[i] <= s_cap
        /\ TotalFetches <= Len(s_shards) * s_cap

\* A search that spent the whole budget: every shard was cut by the cap.
C6_Witness ==
    /\ s_pc = "returned"
    /\ s_cap = MaxCap
    /\ Len(s_shards) = MaxShards
    /\ TotalFetches = MaxShards * MaxCap

\* The decimal string of each year of Years.
DecimalString(year) ==
    CASE year = 2023 -> <<"2", "0", "2", "3">>
      [] year = 2024 -> <<"2", "0", "2", "4">>
      [] year = 202 -> <<"2", "0", "2">>

HasPrefix(s, prefix) ==
    /\ Len(s) >= Len(prefix)
    /\ \A i \in 1..Len(prefix) : s[i] = prefix[i]

\* C7: every album in the result of a search for year Y has a release date
\* that starts with the decimal string of Y; items with a missing or other
\* release date never enter the result.
C7_ResultMatchesYear ==
    \A i \in 1..Len(s_index) :
        /\ s_index[i].release_date # << >>
        /\ HasPrefix(s_index[i].release_date, DecimalString(s_year))

\* A search for 2024 that fetched the page carrying album 1 of 2024 next to
\* items of 2023, and kept album 1 alone.
C7_Witness ==
    /\ s_pc = "returned"
    /\ s_year = 2024
    /\ Len(s_index) = 1
    /\ s_index[1].album_id = 1
    /\ s_index[1].album_name = "third"
    /\ s_index[1].release_date = Date2024Month

IndexIds == {s_index[i].album_id : i \in 1..Len(s_index)}

\* C8: the result holds exactly one entry for each identifier that occurred
\* with a matching release year in a page fetched, and that entry is the one
\* of its first occurrence in shard, page, position order.
C8_FirstOccurrenceWins ==
    /\ \A i, j \in 1..Len(s_index) : s_index[i].album_id = s_index[j].album_id => i = j
    /\ IndexIds = {o.item.id : o \in s_seen}
    /\ \A i \in 1..Len(s_index) :
          \E o \in s_seen :
              /\ o.item.id = s_index[i].album_id
              /\ o.item.name = s_index[i].album_name
              /\ o.item.release_date = s_index[i].release_date
              /\ \A q \in s_seen : q.item.id = o.item.id => q = o

\* Two shards returned {1, 2} and {1, 3}: the result is exactly {1, 2, 3},
\* album 1 with the payload of the first shard.
C8_Witness ==
    /\ s_pc = "returned"
    /\ s_year = 2023
    /\ Len(s_shards) = 2
    /\ s_fetches = <<1, 1>>
    /\ [i \in 1..Len(s_index) |-> s_index[i].album_id] = <<1, 2, 3>>
    /\ s_index[1].album_name = "first"
    /\ \E o \in s_seen : o.item.id = 3 /\ o.shard = 2

-----------------------------------------------------------------------------
(* Properties of the Walker (WalkSpec)                                     *)

RECURSIVE Concat(_)
Concat(pages) == IF pages = << >> THEN << >> ELSE Head(pages) \o Concat(Tail(pages))

\* C9: for a parent served as the pages p1, ..., pk the Walker performs
\* exactly k page fetches and returns p1 ++ ... ++ pk, in page order.
C9_WalkReturnsAllPages ==
    /\ w_pc = "returned" => (w_fetches = Len(w_chain) /\ w_tracks = Concat(w_chain))
    /\ w_pc = "loop" =>
          /\ w_fetches <= Len(w_chain)
          /\ w_tracks = Concat(SubSeq(w_chain, 1, w_fetches))

\* Pages [a] then [b] gave the two children [a, b].
C9_Witness ==
    /\ w_pc = "returned"
    /\ w_chain = << <<Track(1, <<1>>)>>, <<Track(2, <<2, 1>>)>> >>
    /\ w_tracks = <<Track(1, <<1>>), Track(2, <<2, 1>>)>>
    /\ w_fetches = 2

-----------------------------------------------------------------------------
(* Properties of the Orchestrator (MainSpec)                               *)

\* No two rows of a frame carry the same track_id.
UniqueTrackIds(rows) ==
    \A i, j \in 1..Len(rows) : rows[i].track_id = rows[j].track_id => i = j

\* C1: the snapshot written for a period holds no two records with the same
\* track identifier, and neither does the frame of a market after the dedup
\* of collect_year_tracks, whatever the shards, the albums and the markets
\* return.
C1_SnapshotHasUniqueTrackIds ==
    /\ \A f \in 1..Len(o_files) : UniqueTrackIds(o_files[f].rows)
    /\ \A m \in 1..Len(o_dfs) : UniqueTrackIds(o_dfs[m])
    /\ o_pc \in {"artists", "tracks"} => UniqueTrackIds(o_df)

\* A run over two markets that both returned the same tracks, with a track
\* that two albums of one market carry: the file holds each track once.
C1_Witness ==
    /\ o_pc = "done"
    /\ Len(o_markets) = 2
    /\ Len(o_dfs) = 2
    /\ Len(o_rows) > Len(o_df)
    /\ \E i \in 1..Len(o_dfs[1]), j \in 1..Len(o_dfs[2]) :
          o_dfs[1][i].track_id = o_dfs[2][j].track_id
    /\ Len(o_files[Len(o_files)].rows) >= 3
    /\ Len(o_files[Len(o_files)].rows) < Len(o_dfs[1]) + Len(o_dfs[2])

\* The artist columns of df are filled in / the track column is filled in.
ArtistsMerged ==
    o_args.enrich_artists /\ o_df # << >> /\ o_pc \in {"tracks", "search", "merge", "done"}
TracksMerged ==
    o_args.enrich_tracks /\ o_df # << >> /\ o_pc \in {"search", "merge", "done"}

\* The first non-empty artist identifier of a row, EmptyId when it has none.
FirstArtist(row) ==
    IF \E i \in 1..Len(row.artist_ids) : row.artist_ids[i] # EmptyId
    THEN row.artist_ids[CHOOSE i \in 1..Len(row.artist_ids) :
                            /\ row.artist_ids[i] # EmptyId
                            /\ \A j \in 1..(i - 1) : row.artist_ids[j] = EmptyId]
    ELSE EmptyId

\* C10: an identifier absent from the mapping a resolver returned never
\* raises when the mapping is merged into the records: a record whose
\* primary artist is absent gets a null follower count, an empty genre list
\* and a null popularity, a record absent from the track-popularity mapping
\* gets a null popularity, and the records that are present get the
\* resolved values.
C10_AbsentIdentifiersGetDefaults ==
    /\ o_error # "lookup"
    /\ ArtistsMerged =>
          \A i \in 1..Len(o_df) :
              LET row == o_df[i]
                  p == FirstArtist(row)
              IN /\ row.primary_artist_id = p
                 /\ p \notin DOMAIN o_meta =>
                       /\ row.primary_artist_followers = NoneValue
                       /\ row.primary_artist_genres = << >>
                       /\ row.primary_artist_popularity = NoneValue
                 /\ p \in DOMAIN o_meta =>
                       /\ row.primary_artist_followers = o_meta[p].followers
                       /\ row.primary_artist_genres = o_meta[p].genres
                       /\ row.primary_artist_popularity = o_meta[p].popularity
    /\ TracksMerged =>
          \A i \in 1..Len(o_df) :
              LET row == o_df[i]
              IN /\ row.track_id \notin DOMAIN o_pop => row.track_popularity = NoneValue
                 /\ row.track_id \in DOMAIN o_pop => row.track_popularity = o_pop[row.track_id]

\* Tracks 1, 2, 3 with primary artists 1, 2, 3 against a server that knows
\* 1 and 3 only: record 2 holds the defaults, records 1 and 3 the resolved
\* metadata.
C10_Witness ==
    /\ o_pc = "merge"
    /\ o_args.enrich_artists
    /\ o_args.enrich_tracks
    /\ o_artist_ids = {1, 2, 3}
    /\ DOMAIN o_meta = {1, 3}
    /\ DOMAIN o_pop = {1, 3}
    /\ \E i, j, k \in 1..Len(o_df) :
          /\ o_df[i].track_id = 1 /\ o_df[j].track_id = 2 /\ o_df[k].track_id = 3
          /\ o_df[i].primary_artist_id = 1 /\ o_df[j].primary_artist_id = 2
          /\ o_df[k].primary_artist_id = 3
          /\ o_df[j].primary_artist_followers = NoneValue
          /\ o_df[j].primary_artist_genres = << >>
          /\ o_df[j].primary_artist_popularity = NoneValue
          /\ o_df[j].track_popularity = NoneValue
          /\ o_df[i].primary_artist_followers = Entity(1).followers
          /\ o_df[k].primary_artist_followers = Entity(3).followers
          /\ o_df[k].primary_artist_genres = Entity(3).genres
          /\ o_df[i].track_popularity = Entity(1).popularity
          /\ o_df[k].track_popularity = Entity(3).popularity

\* C13: a snapshot file is written only for a period that produced at least
\* one record: no written file is empty of records.
C13_NoFileForEmptyPeriod ==
    \A i \in 1..Len(o_files) : o_files[i].complete => o_files[i].rows # << >>

\* The client identifier or the client secret is missing or empty.
CredentialsMissing ==
    \/ ~o_env.client_id.set \/ o_env.client_id.value = ""
    \/ ~o_env.client_secret.set \/ o_env.client_secret.value = ""

\* C15: when the client identifier or the client secret is missing or empty
\* the run aborts with an error before any network activity: no token
\* request and no API request is ever issued, and no token is held.
C15_NoRequestWithoutCredentials ==
    CredentialsMissing =>
        /\ o_log = << >>
        /\ o_tok = NoToken
        /\ o_files = << >>
        /\ o_pc \in {"start", "raised", "killed"}
        /\ o_pc = "raised" => o_error = "credentials"

\* The identifier is set and the secret is set to the empty string: the run
\* has aborted on the credentials check.
C15_Witness ==
    /\ o_env.client_id = [set |-> TRUE, value |-> "x"]
    /\ o_env.client_secret = [set |-> TRUE, value |-> ""]
    /\ o_pc = "raised"
    /\ o_error = "credentials"
    /\ o_log = << >>

\* The kinds of request the log holds.
LogKinds == {o_log[i].kind : i \in 1..Len(o_log)}

\* C17: the access token is created once and never mutated: a run that
\* passed the credentials check issues exactly one token request, it is the
\* first request of the run, and every API request (search, album tracks,
\* artists batch, tracks batch, of every period and market) carries the
\* token that one request returned, also when the run ends on a failure.
C17_OneTokenForAllRequests ==
    /\ \A i \in 1..Len(o_log) : (o_log[i].kind = "token") <=> (i = 1)
    /\ o_pc \notin {"start", "token"} /\ ~CredentialsMissing /\ o_error # "killed"
          => Len(o_log) >= 1
    /\ o_tok # NoToken => (o_tok \in Tokens /\ Len(o_log) >= 1)
    /\ \A i \in 2..Len(o_log) :
          /\ o_tok \in Tokens
          /\ o_log[i].auth = [scheme |-> "Bearer", credential |-> <<o_tok>>]

\* A run that ended on a terminal Fetcher failure in its second period, after
\* requests of all four kinds: still a single token request, the first.
C17_Witness ==
    /\ o_pc = "raised"
    /\ o_error = "http"
    /\ o_yi = 2
    /\ LogKinds = {"token", "search", "album_tracks", "artists", "tracks"}
    /\ o_log[Len(o_log)].period = 2
    /\ o_log[Len(o_log)].kind = "tracks"
    /\ \E i \in 1..Len(o_log) : o_log[i].market = 2

\* The position of a request kind in the phases of a collect.
PhaseRank(kind) ==
    CASE kind = "search" -> 1
      [] kind = "album_tracks" -> 2
      [] kind = "artists" -> 3
      [] OTHER -> 4

\* The album-tracks requests of the collect in progress (or just ended), and
\* among them the first-page request of each album.
CurrentWalks ==
    SelectSeq(o_log, LAMBDA r : r.period = o_yi /\ r.market = o_mi /\ r.kind = "album_tracks")
FirstPages == SelectSeq(CurrentWalks, LAMBDA r : r.key[2] = 1)

\* C19: within one collect the phases are strictly ordered: all search
\* requests, then the child-page requests, the parents being walked one
\* after another in the order the Searcher first found them, then the
\* artist batches, then the track-popularity batches, which carry only
\* identifiers of records that survived the dedup.
C19_PhasesInOrder ==
    /\ \A i \in 2..(Len(o_log) - 1) :
          IF o_log[i].period = o_log[i + 1].period /\ o_log[i].market = o_log[i + 1].market
          THEN PhaseRank(o_log[i].kind) <= PhaseRank(o_log[i + 1].kind)
          ELSE /\ o_log[i + 1].kind = "search"
               /\ \/ o_log[i].period < o_log[i + 1].period
                  \/ /\ o_log[i].period = o_log[i + 1].period
                     /\ o_log[i].market < o_log[i + 1].market
    /\ Len(o_log) >= 2 => o_log[2].kind = "search"
    /\ \A k \in 1..Len(FirstPages) :
          k <= Len(o_albums) /\ FirstPages[k].key[1] = o_albums[k].album_id
    /\ \A k \in 1..(Len(CurrentWalks) - 1) :
          \/ CurrentWalks[k + 1].key[2] = 1
          \/ /\ CurrentWalks[k + 1].key[1] = CurrentWalks[k].key[1]
             /\ CurrentWalks[k + 1].key[2] = CurrentWalks[k].key[2] + 1
    /\ \A i \in 1..Len(o_log) :
          (o_log[i].kind = "tracks" /\ o_log[i].period = o_yi /\ o_log[i].market = o_mi) =>
              /\ Range(o_log[i].key) \subseteq {o_df[j].track_id : j \in 1..Len(o_df)}
              /\ Len(o_df) = Cardinality({o_rows[j].track_id : j \in 1..Len(o_rows)})

\* A collect that found albums 1 and 2 in that order, walked album 1 over
\* two pages and then album 2, dropped a repeated track and issued artist
\* and track batches.
C19_Witness ==
    /\ o_pc = "merge"
    /\ Len(o_albums) = 2
    /\ o_albums[1].album_id = 1
    /\ o_albums[2].album_id = 2
    /\ Len(FirstPages) = 2
    /\ Len(CurrentWalks) = 3
    /\ Len(o_df) < Len(o_rows)
    /\ \E i, j \in 1..Len(o_log) :
          /\ i < j
          /\ o_log[i].kind = "artists" /\ o_log[i].period = o_yi /\ o_log[i].market = o_mi
          /\ o_log[j].kind = "tracks" /\ o_log[j].period = o_yi /\ o_log[j].market = o_mi

\* The run ended abnormally: on an uncaught exception or on a kill.
EndedAbnormally == o_pc \in {"raised", "killed"}

\* Periods are processed in the order given and the file of each period is
\* written in full, once, before any request of the next period: requests
\* never go back to an earlier period, and in every state the files of all
\* periods before the current one are there, each under its own path.
FilesBeforeNextPeriod ==
    /\ \A i \in 2..(Len(o_log) - 1) : o_log[i].period <= o_log[i + 1].period
    /\ \A i \in 2..Len(o_log) : o_log[i].period <= o_yi
    /\ Len(o_files) >= o_yi - 1
    /\ \A i \in 1..Len(o_files) :
          /\ i <= Len(o_years)
          /\ o_files[i].path = Str(o_years[i])
          /\ i < o_yi => o_files[i].complete
    /\ \A i, j \in 1..Len(o_files) : i # j => o_files[i].path # o_files[j].path
    /\ o_pc = "done" => (Len(o_files) = Len(o_years) /\ o_files[Len(o_files)].complete)

-----------------------------------------------------------------------------
(* Termination of the page loops (WalkLiveSpec)                            *)

\* C16: every page loop ends after finitely many requests whatever next
\* links the server returns: a walk eventually returns or raises.
C16_WalkEnds == <>(w_pc \in {"returned", "raised"})

-----------------------------------------------------------------------------
(* Properties of the paging of the Searcher and the Walker (PagingSpec)    *)

\* Whether request i of the Searcher is the first one of its shard.
FirstOfShard(i) == i = 1 \/ s_reqs[i - 1].shard # s_reqs[i].shard

\* C18: the query parameters apply to the first page only. In the Searcher
\* the first request of each shard goes to the base endpoint with
\* q = 'year:Y artist:<shard>' and offset 0, and every later request of the
\* shard goes to the next link the previous page returned, without
\* parameters; shards never share a cursor. In the Walker the first request
\* goes to the base endpoint of the parent with the parameters and every
\* later one to the next link the previous page returned, without.
C18_ParamsOnFirstPageOnly ==
    /\ \A i \in 1..Len(s_reqs) :
          IF FirstOfShard(i)
          THEN /\ s_reqs[i].url = "https://api.spotify.com/v1/search"
               /\ s_reqs[i].params.present
               /\ s_reqs[i].params.q
                     = <<"year:">> \o Str(s_year) \o <<" artist:", s_shards[s_reqs[i].shard]>>
               /\ s_reqs[i].params.offset = 0
               /\ i > 1 => s_reqs[i - 1].shard < s_reqs[i].shard
          ELSE /\ s_reqs[i].url = s_reqs[i - 1].next
               /\ s_reqs[i].url \in CursorUrls
               /\ s_reqs[i].params = NoParams
    /\ \A i \in 1..Len(w_reqs) :
          IF i = 1
          THEN w_reqs[i].url = 1 /\ w_reqs[i].params
          ELSE /\ w_reqs[i].url = w_reqs[i - 1].next
               /\ w_reqs[i].url # 0
               /\ ~w_reqs[i].params

\* A search that followed two cursors in its first shard, the second request
\* going to the link the first page returned and the third to the link the
\* second returned, and then started its second shard at the base endpoint
\* with the parameters of that shard.
C18_Witness ==
    /\ s_pc = "returned"
    /\ Len(s_reqs) = 4
    /\ s_reqs[1].params.present /\ s_reqs[1].next = "cursor-1"
    /\ s_reqs[2].shard = 1 /\ s_reqs[2].url = "cursor-1" /\ s_reqs[2].params = NoParams
    /\ s_reqs[2].next = "cursor-2"
    /\ s_reqs[3].shard = 1 /\ s_reqs[3].url = "cursor-2" /\ s_reqs[3].params = NoParams
    /\ s_reqs[4].shard = 2 /\ s_reqs[4].url = SearchUrl
    /\ s_reqs[4].params.q = SearchQuery(s_year, s_shards[2])

------------------------------------------------------------------------------
(* The limit of the search requests (CliSpec)                               *)

\* C21: the per-page limit the caller selects with --limit is the limit
\* carried by the first-page search request of every shard of every period
\* and market of the run.
C21_CliLimitCarried ==
    \A i \in 1..Len(o_log) :
        (o_log[i].kind = "search" /\ o_log[i].key[2] = 1) => o_log[i].limit = o_args.limit

-----------------------------------------------------------------------------
(* Properties of the artist explorer (ExploreSpec)                         *)

\* A request whose page had items and a next link.
FullPage(i) == e_reqs[i].answered /\ e_reqs[i].items > 0 /\ e_reqs[i].next

AllPagesFull == Len(e_reqs) = e_args.pages /\ \A i \in 1..Len(e_reqs) : FullPage(i)

\* At most `pages` requests, at offset, offset + limit, ... in that order,
\* and none after a page that is empty or has no next link.
RequestsInOrder ==
    /\ Len(e_reqs) <= e_args.pages
    /\ \A i \in 1..Len(e_reqs) :
          /\ e_reqs[i].offset = e_args.offset + (i - 1) * e_args.limit
          /\ e_reqs[i].limit = e_args.limit
          /\ i < Len(e_reqs) => FullPage(i)
    /\ e_pc = "loop" => \A i \in 1..Len(e_reqs) : FullPage(i)
    /\ e_pc = "returned" =>
          \/ Len(e_reqs) = e_args.pages
          \/ ~FullPage(Len(e_reqs))

\* C23 as stated: one call issues at most `pages` search requests, at the
\* offsets offset, offset + limit, offset + 2*limit, ... in that order; it
\* stops at the first page that is empty or has no next link; every returned
\* artist has popularity >= min_popularity; and the returned next_offset is
\* offset + pages*limit when each of the `pages` fetched pages was non-empty
\* and had a next link, and None otherwise.
C23_PagedArtistSearch ==
    /\ RequestsInOrder
    /\ e_pc = "returned" =>
          /\ \A i \in 1..Len(e_artists) :
                /\ e_artists[i].popularity.some
                /\ e_artists[i].popularity.v >= e_args.min_popularity
          /\ e_next_offset = IF AllPagesFull
                             THEN Some(e_args.offset + e_args.pages * e_args.limit)
                             ELSE NoneValue

\* C23, amended: as above, except that an artist whose popularity is
\* missing is filtered as if it were 0 and returned with popularity None,
\* so that every returned artist either reports a popularity >=
\* min_popularity or reports none while min_popularity <= 0; and that
\* next_offset is offset + pages*limit only when pages >= 1 (a call with
\* pages = 0 fetches nothing and returns None).
C23_PagedArtistSearchFromOnePage ==
    /\ RequestsInOrder
    /\ e_pc = "returned" =>
          /\ \A i \in 1..Len(e_artists) :
                IF e_artists[i].popularity.some
                THEN e_artists[i].popularity.v >= e_args.min_popularity
                ELSE e_args.min_popularity <= 0
          /\ e_next_offset = IF e_args.pages >= 1 /\ AllPagesFull
                             THEN Some(e_args.offset + e_args.pages * e_args.limit)
                             ELSE NoneValue

\* A call for two pages of two from offset 4 with a minimum popularity of
\* 50: both pages were full, an artist below the minimum was dropped and the
\* suggested offset is 8.
C23_Witness ==
    /\ e_pc = "returned"
    /\ e_args = [limit |-> 2, pages |-> 2, min_popularity |-> 50, offset |-> 4]
    /\ Len(e_reqs) = 2
    /\ e_reqs[1].offset = 4 /\ e_reqs[2].offset = 6
    /\ e_reqs[1].items = 2 /\ e_reqs[2].items = 2
    /\ e_next_offset = Some(8)
    /\ Len(e_artists) = 2
    /\ \A i \in 1..2 : e_artists[i].id = 1 /\ e_artists[i].popularity = Some(90)

====
